---- MODULE Spec2Model ----
(***************************************************************************)
(* Model of the PV energy model of SolarSenseAI                            *)
(* (server/src/services/pvService.ts, served by the compute-pv handler of  *)
(* server/src/controllers/gisController.ts) and of the raster sampler      *)
(* that feeds it (server/src/services/geoTiffService.ts).                  *)
(*                                                                         *)
(* JavaScript numbers are modelled as exact rationals <<n, d>> in lowest   *)
(* terms with d > 0, extended with the three IEEE-754 special values the   *)
(* code can produce by dividing by zero: <<1,0>> = +Infinity,              *)
(* <<-1,0>> = -Infinity and <<0,0>> = NaN.  Rounding of the 64-bit         *)
(* mantissa is not modelled: every equality below is an equality of the    *)
(* exact values ("within floating-point tolerance" in the code).           *)
(* The JavaScript value `undefined` is <<0,-1>>.                           *)
(***************************************************************************)
EXTENDS Integers, Sequences, FiniteSets, TLC

VARIABLES pc, req, ret, res, console, results, tasks

vars == <<pc, req, ret, res, console, results, tasks>>

----------------------------------------------------------------------------
(* Bounds of the explored input space *)

MaxAreaStep == 2
MaxTempStep == 1
MaxOverride == 1

----------------------------------------------------------------------------
(* Numbers *)

Abs(n) == IF n < 0 THEN -n ELSE n
Sgn(n) == IF n < 0 THEN -1 ELSE IF n > 0 THEN 1 ELSE 0

RECURSIVE GCD(_, _)
GCD(a, b) == IF b = 0 THEN a ELSE GCD(b, a % b)

GCD1(a, b) == IF a = 0 /\ b = 0 THEN 1 ELSE GCD(Abs(a), Abs(b))

Norm(n, d) ==
    IF d = 0 THEN <<Sgn(n), 0>>
    ELSE LET g == GCD1(n, d)
             s == IF d < 0 THEN -1 ELSE 1
         IN  <<s * (n \div g), s * (d \div g)>>

Q(n, d) == Norm(n, d)
I(n) == <<n, 1>>

NaN == <<0, 0>>
Undef == <<0, -1>>

IsNaN(x) == x = NaN \/ x = Undef
IsFinite(x) == x[2] > 0

\* undefined used as a number is NaN
ToNum(x) == IF x = Undef THEN NaN ELSE x

Mul(x0, y0) ==
    LET x == ToNum(x0)
        y == ToNum(y0)
        g1 == GCD1(x[1], y[2])
        g2 == GCD1(y[1], x[2])
    IN  Norm((x[1] \div g1) * (y[1] \div g2), (x[2] \div g2) * (y[2] \div g1))

Recip(x0) ==
    LET x == ToNum(x0)
    IN  IF x[1] < 0 THEN <<-x[2], -x[1]>> ELSE <<x[2], x[1]>>

Div(x, y) == Mul(x, Recip(y))

Add(x0, y0) ==
    LET x == ToNum(x0)
        y == ToNum(y0)
    IN  IF x = NaN \/ y = NaN THEN NaN
        ELSE IF x[2] = 0 /\ y[2] = 0 THEN (IF x = y THEN x ELSE NaN)
        ELSE IF x[2] = 0 THEN x
        ELSE IF y[2] = 0 THEN y
        ELSE LET g == GCD1(x[2], y[2])
             IN  Norm(x[1] * (y[2] \div g) + y[1] * (x[2] \div g),
                      (x[2] \div g) * y[2])

Neg(x) == <<-ToNum(x)[1], ToNum(x)[2]>>
Sub(x, y) == Add(x, Neg(y))

\* x < y of JavaScript: false as soon as one side is NaN
Lt(x0, y0) ==
    LET x == ToNum(x0)
        y == ToNum(y0)
    IN  IF x = NaN \/ y = NaN THEN FALSE
        ELSE IF x[2] = 0 /\ y[2] = 0 THEN x[1] < y[1]
        ELSE x[1] * y[2] < y[1] * x[2]

Gt(x, y) == Lt(y, x)
Le(x, y) == ~IsNaN(x) /\ ~IsNaN(y) /\ ~Lt(y, x)
Ge(x, y) == Le(y, x)

\* x === y on numbers: NaN equals nothing
NumEq(x, y) == ~IsNaN(x) /\ ~IsNaN(y) /\ x = y

\* Math.max / Math.min / Math.floor / Math.abs
MathMax(x, y) == IF IsNaN(x) \/ IsNaN(y) THEN NaN ELSE IF Lt(x, y) THEN y ELSE x
MathMin(x, y) == IF IsNaN(x) \/ IsNaN(y) THEN NaN ELSE IF Lt(y, x) THEN y ELSE x
MathFloor(x0) ==
    LET x == ToNum(x0) IN IF x[2] = 0 THEN x ELSE <<x[1] \div x[2], 1>>
MathAbs(x0) == LET x == ToNum(x0) IN <<Abs(x[1]), x[2]>>

\* truthiness of a number-or-undefined: 0, NaN and undefined are falsy
Truthy(x) == ~IsNaN(x) /\ x # I(0)

\* a || b   and   a ?? b
OrElse(a, b) == IF Truthy(a) THEN a ELSE b
Nullish(a, b) == IF a = Undef THEN b ELSE a

\* arr.reduce((a, b) => a + b, 0)
RECURSIVE SumUpTo(_, _)
SumUpTo(s, k) == IF k = 0 THEN I(0) ELSE Add(SumUpTo(s, k - 1), s[k])
SumSeq(s) == SumUpTo(s, Len(s))

----------------------------------------------------------------------------
(* Configuration tables of pvService.ts *)

PV_SYSTEM_PRESETS ==
    [ smallResidential |->
        [ name |-> "smallResidential", displayName |-> "Small Residential",
          temperatureCoefficient |-> Q(-35, 100), noct |-> I(45), panelEfficiency |-> Q(21, 100),
          tilt |-> I(25), azimuth |-> I(180), performanceRatio |-> Q(80, 100),
          moduleArea |-> Q(17, 10), modulePowerW |-> I(420),
          packingFactor |-> Q(9, 10), dcAcRatio |-> Q(12, 10) ],
      mediumCommercial |->
        [ name |-> "mediumCommercial", displayName |-> "Medium Commercial",
          temperatureCoefficient |-> Q(-35, 100), noct |-> I(45), panelEfficiency |-> Q(21, 100),
          tilt |-> I(10), azimuth |-> I(180), performanceRatio |-> Q(82, 100),
          moduleArea |-> I(2), modulePowerW |-> I(550),
          packingFactor |-> Q(85, 100), dcAcRatio |-> Q(125, 100) ],
      groundMounted |->
        [ name |-> "groundMounted", displayName |-> "Ground-Mounted",
          temperatureCoefficient |-> Q(-30, 100), noct |-> I(45), panelEfficiency |-> Q(22, 100),
          tilt |-> I(30), azimuth |-> I(180), performanceRatio |-> Q(85, 100),
          moduleArea |-> Q(26, 10), modulePowerW |-> I(650),
          packingFactor |-> Q(5, 10), dcAcRatio |-> Q(13, 10) ],
      floatingLargeScale |->
        [ name |-> "floatingLargeScale", displayName |-> "Floating Large Scale",
          temperatureCoefficient |-> Q(-35, 100), noct |-> I(40), panelEfficiency |-> Q(21, 100),
          tilt |-> I(12), azimuth |-> I(180), performanceRatio |-> Q(82, 100),
          moduleArea |-> I(2), modulePowerW |-> I(500),
          packingFactor |-> Q(7, 10), dcAcRatio |-> Q(12, 10) ] ]

\* the configuration object the compute-pv handler builds from a custom
\* systemConfig object that sets none of the optional fields
CustomConfig ==
    [ name |-> "custom", displayName |-> "Custom",
      temperatureCoefficient |-> Undef, noct |-> Undef, capacity_kWp |-> Undef,
      panelEfficiency |-> Q(18, 100),
      tilt |-> I(25), azimuth |-> I(180), performanceRatio |-> Q(75, 100),
      moduleArea |-> Undef, modulePowerW |-> Undef,
      packingFactor |-> Undef, dcAcRatio |-> Undef ]

PanelTechnology == {"mono", "poly", "thinfilm"}
GridSystemType == {"on_grid", "hybrid", "off_grid"}

PanelTechProfiles ==
    [ mono |-> [ temperatureCoefficient |-> Q(-35, 100), noct |-> I(45),
                 typicalEfficiency |-> Q(21, 100), modulePowerW |-> I(420),
                 moduleArea |-> Q(17, 10) ],
      poly |-> [ temperatureCoefficient |-> Q(-40, 100), noct |-> I(45),
                 typicalEfficiency |-> Q(17, 100), modulePowerW |-> I(400),
                 moduleArea |-> Q(18, 10) ],
      thinfilm |-> [ temperatureCoefficient |-> Q(-25, 100), noct |-> I(44),
                 typicalEfficiency |-> Q(13, 100), modulePowerW |-> I(150),
                 moduleArea |-> Q(12, 10) ] ]

GridProfiles ==
    [ on_grid  |-> [ usableFraction |-> I(1) ],
      hybrid   |-> [ usableFraction |-> Q(95, 100) ],
      off_grid |-> [ usableFraction |-> Q(85, 100) ] ]

----------------------------------------------------------------------------
(* calculateSystemCapacity *)

\* variant: the panel count is taken from the whole area
calculateSystemCapacity_NoPacking(area_m2, moduleArea, modulePowerW, packingFactor, dcAcRatio) ==
    LET area_eff == Mul(area_m2, packingFactor)
        num_panels == MathFloor(Div(area_m2, moduleArea))
        P_dc_kWp == Div(Mul(num_panels, modulePowerW), I(1000))
        P_ac_kW == Div(P_dc_kWp, dcAcRatio)
    IN  [ area_eff |-> area_eff, num_panels |-> num_panels,
          P_dc_kWp |-> P_dc_kWp, P_ac_kW |-> P_ac_kW ]

calculateSystemCapacity(area_m2, moduleArea, modulePowerW, packingFactor, dcAcRatio) ==
    LET area_eff == Mul(area_m2, packingFactor)
        num_panels == MathFloor(Div(area_eff, moduleArea))
        P_dc_kWp == Div(Mul(num_panels, modulePowerW), I(1000))
        P_ac_kW == Div(P_dc_kWp, dcAcRatio)
    IN  [ area_eff |-> area_eff, num_panels |-> num_panels,
          P_dc_kWp |-> P_dc_kWp, P_ac_kW |-> P_ac_kW ]

----------------------------------------------------------------------------
(* estimateMonthlyGHI *)

baseFactors ==
    << Q(85, 100), Q(90, 100), Q(105, 100), Q(110, 100), Q(115, 100), Q(120, 100),
       Q(115, 100), Q(110, 100), Q(105, 100), Q(95, 100), Q(90, 100), Q(85, 100) >>

variationFactorOf(absLat) ==
    IF Lt(absLat, I(15)) THEN Q(5, 100)
    ELSE IF Lt(absLat, I(30)) THEN Q(10, 100)
    ELSE IF Lt(absLat, I(45)) THEN Q(15, 100)
    ELSE Q(20, 100)

estimateMonthlyGHI(annualGHI, latitude) ==
    LET lat == MathMax(I(-90), MathMin(I(90), latitude))
        absLat == MathAbs(lat)
        variationFactor == variationFactorOf(absLat)
        monthlyFactors ==
            [ i \in 1..12 |-> Add(I(1), Mul(Sub(baseFactors[i], I(1)), variationFactor)) ]
        sum == SumSeq(monthlyFactors)
        normalizedFactors == [ i \in 1..12 |-> Div(Mul(monthlyFactors[i], I(12)), sum) ]
        finalFactors ==
            IF Lt(lat, I(0))
            THEN [ i \in 1..12 |-> normalizedFactors[((i + 5) % 12) + 1] ]
            ELSE normalizedFactors
    IN  [ i \in 1..12 |-> Mul(annualGHI, finalFactors[i]) ]

----------------------------------------------------------------------------
(* computePVFromZonalStats *)

\* `layers` maps a layer name to the mean of its ZonalStats (the only field
\* of ZonalStats the PV model reads); an absent layer is absent from DOMAIN.
MonthKeys ==
    << "PVOUT_01", "PVOUT_02", "PVOUT_03", "PVOUT_04", "PVOUT_05", "PVOUT_06",
       "PVOUT_07", "PVOUT_08", "PVOUT_09", "PVOUT_10", "PVOUT_11", "PVOUT_12" >>

\* layers.X?.mean
LayerMean(layers, key) == IF key \in DOMAIN layers THEN layers[key] ELSE Undef

\* Step 1: the means of the monthly PVOUT layers that are present, in order
extractMonthlyPVOUT_Padded(layers) ==
    [ i \in 1..12 |-> IF MonthKeys[i] \in DOMAIN layers THEN layers[MonthKeys[i]] ELSE I(0) ]

extractMonthlyPVOUT(layers) ==
    LET present == SelectSeq(MonthKeys, LAMBDA k : k \in DOMAIN layers)
    IN  [ i \in 1..Len(present) |-> layers[present[i]] ]

\* variant: the factor is only clamped from above
techTempFactor_NoFloor(panelTechnology, temp_mean) ==
    LET techProfile == PanelTechProfiles[panelTechnology]
        gamma_tech == Div(techProfile.temperatureCoefficient, I(100))
        gamma_ref == Q(-35, 10000)
        T_cell_avg == Add(temp_mean, Sub(techProfile.noct, I(20)))
        f == Add(I(1), Mul(Sub(gamma_tech, gamma_ref), Sub(T_cell_avg, I(25))))
    IN  MathMin(Q(105, 100), f)

\* Step 4: technology-specific temperature correction
techTempFactor(panelTechnology, temp_mean) ==
    LET techProfile == PanelTechProfiles[panelTechnology]
        gamma_tech == Div(techProfile.temperatureCoefficient, I(100))
        gamma_ref == Q(-35, 10000)
        T_cell_avg == Add(temp_mean, Sub(techProfile.noct, I(20)))
        f == Add(I(1), Mul(Sub(gamma_tech, gamma_ref), Sub(T_cell_avg, I(25))))
    IN  MathMax(Q(9, 10), MathMin(Q(105, 100), f))

\* variant: a monthly sum of exactly 100 is taken as daily averages
annualSpecificYield_MonthlyLe(pvout_monthly_kwh_kwp, pvout_reference_kwh_kwp, ghi_mean, pr) ==
    IF Len(pvout_monthly_kwh_kwp) = 12
    THEN LET monthlySum == SumSeq(pvout_monthly_kwh_kwp)
         IN  IF Le(monthlySum, I(100))
             THEN Mul(monthlySum, Q(304375, 10000))
             ELSE monthlySum
    ELSE IF Truthy(pvout_reference_kwh_kwp) /\ Gt(pvout_reference_kwh_kwp, I(0))
    THEN IF Lt(pvout_reference_kwh_kwp, I(10))
         THEN Mul(pvout_reference_kwh_kwp, I(365))
         ELSE pvout_reference_kwh_kwp
    ELSE Mul(Mul(ghi_mean, I(365)), pr)

\* variant: a reference value of exactly 10 is taken as a daily average
annualSpecificYield_ScalarLe(pvout_monthly_kwh_kwp, pvout_reference_kwh_kwp, ghi_mean, pr) ==
    IF Len(pvout_monthly_kwh_kwp) = 12
    THEN LET monthlySum == SumSeq(pvout_monthly_kwh_kwp)
         IN  IF Lt(monthlySum, I(100))
             THEN Mul(monthlySum, Q(304375, 10000))
             ELSE monthlySum
    ELSE IF Truthy(pvout_reference_kwh_kwp) /\ Gt(pvout_reference_kwh_kwp, I(0))
    THEN IF Le(pvout_reference_kwh_kwp, I(10))
         THEN Mul(pvout_reference_kwh_kwp, I(365))
         ELSE pvout_reference_kwh_kwp
    ELSE Mul(Mul(ghi_mean, I(365)), pr)

\* variant: the GHI fallback forgets the performance ratio
annualSpecificYield_NoPR(pvout_monthly_kwh_kwp, pvout_reference_kwh_kwp, ghi_mean, pr) ==
    IF Len(pvout_monthly_kwh_kwp) = 12
    THEN LET monthlySum == SumSeq(pvout_monthly_kwh_kwp)
         IN  IF Lt(monthlySum, I(100))
             THEN Mul(monthlySum, Q(304375, 10000))
             ELSE monthlySum
    ELSE IF Truthy(pvout_reference_kwh_kwp) /\ Gt(pvout_reference_kwh_kwp, I(0))
    THEN IF Lt(pvout_reference_kwh_kwp, I(10))
         THEN Mul(pvout_reference_kwh_kwp, I(365))
         ELSE pvout_reference_kwh_kwp
    ELSE Mul(ghi_mean, I(365))

\* Step 5: resolution of the reference yield's unit
annualSpecificYield(pvout_monthly_kwh_kwp, pvout_reference_kwh_kwp, ghi_mean, pr) ==
    IF Len(pvout_monthly_kwh_kwp) = 12
    THEN LET monthlySum == SumSeq(pvout_monthly_kwh_kwp)
         IN  IF Lt(monthlySum, I(100))
             THEN Mul(monthlySum, Q(304375, 10000))
             ELSE monthlySum
    ELSE IF Truthy(pvout_reference_kwh_kwp) /\ Gt(pvout_reference_kwh_kwp, I(0))
    THEN IF Lt(pvout_reference_kwh_kwp, I(10))
         THEN Mul(pvout_reference_kwh_kwp, I(365))
         ELSE pvout_reference_kwh_kwp
    ELSE Mul(Mul(ghi_mean, I(365)), pr)

\* Number.prototype.toFixed(1), as a number
ToFixed1(x0) ==
    LET x == ToNum(x0)
    IN  IF x[2] = 0 THEN x
        ELSE LET a == MathFloor(Add(Mul(MathAbs(x), I(10)), Q(1, 2)))
             IN  Q(Sgn(x[1]) * a[1], 10)

\* variant: only a yield above the band is reported
sanityCheck_UpperOnly(specific_yield, finalP_dc_kWp, pvout_reference_kwh_kwp, annual_yield) ==
    IF Gt(specific_yield, I(2200))
    THEN << [ level |-> "warn", msg |-> "Suspicious Specific Yield",
              data |-> [ value |-> ToFixed1(specific_yield) ] ],
            [ level |-> "warn", msg |-> "Inputs",
              data |-> [ System |-> ToFixed1(finalP_dc_kWp),
                         PVOUT_Ref |-> pvout_reference_kwh_kwp,
                         Annual_Yield |-> ToFixed1(annual_yield) ] ] >>
    ELSE << >>

\* Sanity check: the console.warn calls made for an implausible yield
sanityCheck(specific_yield, finalP_dc_kWp, pvout_reference_kwh_kwp, annual_yield) ==
    IF Lt(specific_yield, I(900)) \/ Gt(specific_yield, I(2200))
    THEN << [ level |-> "warn", msg |-> "Suspicious Specific Yield",
              data |-> [ value |-> ToFixed1(specific_yield) ] ],
            [ level |-> "warn", msg |-> "Inputs",
              data |-> [ System |-> ToFixed1(finalP_dc_kWp),
                         PVOUT_Ref |-> pvout_reference_kwh_kwp,
                         Annual_Yield |-> ToFixed1(annual_yield) ] ] >>
    ELSE << >>

\* Step 7: monthly distribution of the usable annual energy
monthlyDistribution(pvout_monthly_kwh_kwp, ghi_mean, latitude, yearly_kWh_usable) ==
    IF Len(pvout_monthly_kwh_kwp) = 12
    THEN LET totalRaw == SumSeq(pvout_monthly_kwh_kwp)
             shares == [ i \in 1..12 |-> Div(pvout_monthly_kwh_kwp[i], totalRaw) ]
         IN  [ i \in 1..12 |-> Mul(shares[i], yearly_kWh_usable) ]
    ELSE LET lat == OrElse(latitude, I(20))
             monthlyGHI == estimateMonthlyGHI(ghi_mean, lat)
             totalGHI == SumSeq(monthlyGHI)
             shares == [ i \in 1..12 |-> Div(monthlyGHI[i], totalGHI) ]
         IN  [ i \in 1..12 |-> Mul(shares[i], yearly_kWh_usable) ]

\* variant: the override is ignored
finalCapacity_Derived(installed_capacity_kWp, P_dc_kWp) ==
    P_dc_kWp

\* the installed capacity the energy is computed for
finalCapacity(installed_capacity_kWp, P_dc_kWp) ==
    OrElse(installed_capacity_kWp, P_dc_kWp)

\* variant: the grid losses are not applied
usableEnergy_NoLoss(yearly_kWh_calibrated, gridType) ==
    yearly_kWh_calibrated

\* Step 6: grid type losses
usableEnergy(yearly_kWh_calibrated, gridType) ==
    Mul(yearly_kWh_calibrated, GridProfiles[gridType].usableFraction)

\* The function is evaluated in the order of its steps; each step below
\* extends the record v of the local constants computed so far.

\* Steps 1 and 2: the values read from the layers, the options and the
\* configuration
pvInputs(area_m2, layers, systemConfig, options) ==
    LET panelTechnology ==
            IF options.panelTechnology = "" THEN "mono" ELSE options.panelTechnology
        techProfile == PanelTechProfiles[panelTechnology]
    IN  [ area_m2 |-> area_m2,
          layers |-> layers,
          systemConfig |-> systemConfig,
          options |-> options,
          ghi_mean |-> OrElse(LayerMean(layers, "GHI"), I(0)),
          pvout_reference_kwh_kwp |-> LayerMean(layers, "PVOUT"),
          temp_mean |-> OrElse(LayerMean(layers, "TEMP"), I(25)),
          pvout_monthly_kwh_kwp |-> extractMonthlyPVOUT(layers),
          panelTechnology |-> panelTechnology,
          gridType |-> IF options.gridType = "" THEN "on_grid" ELSE options.gridType,
          moduleArea |-> Nullish(systemConfig.moduleArea, techProfile.moduleArea),
          modulePowerW |-> Nullish(systemConfig.modulePowerW, techProfile.modulePowerW),
          packingFactor |-> Nullish(systemConfig.packingFactor, Q(8, 10)),
          dcAcRatio |-> Nullish(systemConfig.dcAcRatio, Q(115, 100)) ]

\* Step 3: system capacity
pvCapacity(v) ==
    LET cap == calculateSystemCapacity(v.area_m2, v.moduleArea, v.modulePowerW,
                                       v.packingFactor, v.dcAcRatio)
    IN  [ cap |-> cap,
          finalP_dc_kWp |-> finalCapacity(v.options.installed_capacity_kWp, cap.P_dc_kWp) ]
        @@ v

\* Step 4 and the first half of step 5: correction factor and annual yield
pvYield(v) ==
    [ f_tech_temp |-> techTempFactor(v.panelTechnology, v.temp_mean),
      pvout_annual_specific_yield |->
          annualSpecificYield(v.pvout_monthly_kwh_kwp, v.pvout_reference_kwh_kwp,
                              v.ghi_mean, v.systemConfig.performanceRatio) ]
    @@ v

\* base production
pvBase(v) ==
    [ base_production |-> Mul(v.finalP_dc_kWp, v.pvout_annual_specific_yield) ] @@ v

\* calibrated annual energy
pvCalibrated(v) ==
    [ yearly_kWh_calibrated |-> Mul(v.base_production, v.f_tech_temp) ] @@ v

\* recalculated specific yield
pvSpecificYield(v) ==
    [ specific_yield_kwh_kwp_calibrated |-> Div(v.yearly_kWh_calibrated, v.finalP_dc_kWp) ]
    @@ v

\* Step 6: usable energy
pvUsable(v) ==
    [ yearly_kWh_usable |-> usableEnergy(v.yearly_kWh_calibrated, v.gridType) ] @@ v

\* Step 7: monthly energy
pvMonthly(v) ==
    [ monthly_kWh_usable |->
          monthlyDistribution(v.pvout_monthly_kwh_kwp, v.ghi_mean, v.options.latitude,
                              v.yearly_kWh_usable) ]
    @@ v

\* what the function writes to the console
pvConsole(v) ==
    sanityCheck(v.specific_yield_kwh_kwp_calibrated, v.finalP_dc_kWp,
                v.pvout_reference_kwh_kwp, v.pvout_annual_specific_yield)
    \o << [ level |-> "log", msg |-> "Calculation Debug",
            data |-> [ P_dc_kWp |-> v.finalP_dc_kWp,
                       PVOUT_Ref |-> v.pvout_reference_kwh_kwp,
                       Is_Daily |-> Truthy(v.pvout_reference_kwh_kwp)
                                    /\ Lt(v.pvout_reference_kwh_kwp, I(10)),
                       Annual_Specific_Yield |-> v.pvout_annual_specific_yield,
                       Tech_Temp_Factor |-> v.f_tech_temp,
                       Yearly_kWh |-> v.yearly_kWh_calibrated,
                       Specific_Yield |-> v.specific_yield_kwh_kwp_calibrated ] ] >>

\* the returned object
pvResult(v) ==
    [ area_m2 |-> v.area_m2,
      area_effective_m2 |-> v.cap.area_eff,
      num_panels |-> v.cap.num_panels,
      P_dc_kWp |-> v.finalP_dc_kWp,
      P_ac_kW |-> v.cap.P_ac_kW,
      panelTechnology |-> v.panelTechnology,
      gridType |-> v.gridType,
      presetName |-> v.systemConfig.displayName,
      ghi_mean |-> v.ghi_mean,
      dni_mean |-> LayerMean(v.layers, "DNI"),
      dif_mean |-> LayerMean(v.layers, "DIF"),
      gti_mean |-> LayerMean(v.layers, "GTI"),
      temp_mean |-> v.temp_mean,
      opta_deg |-> LayerMean(v.layers, "OPTA"),
      elevation_m |-> LayerMean(v.layers, "ELE"),
      pvout_reference_kwh_kwp |-> v.pvout_reference_kwh_kwp,
      pvout_scale_factor |-> I(1),
      pvout_monthly_kwh_kwp |->
          IF Len(v.pvout_monthly_kwh_kwp) = 12 THEN v.pvout_monthly_kwh_kwp ELSE Undef,
      f_tech_temp |-> v.f_tech_temp,
      daily_kWh_raw |-> Div(v.yearly_kWh_usable, I(365)),
      yearly_kWh_raw |-> v.yearly_kWh_calibrated,
      yearly_kWh_calibrated |-> v.yearly_kWh_calibrated,
      yearly_kWh_usable |-> v.yearly_kWh_usable,
      specific_yield_kwh_kwp_raw |-> v.specific_yield_kwh_kwp_calibrated,
      specific_yield_kwh_kwp_calibrated |-> v.specific_yield_kwh_kwp_calibrated,
      performance_ratio |-> v.systemConfig.performanceRatio,
      static_losses_PR |-> v.systemConfig.performanceRatio,
      temperature_corrected_efficiency |-> v.systemConfig.panelEfficiency,
      monthly_kWh_usable |-> v.monthly_kWh_usable,
      model_version |-> "v2.1-tech-specific",
      daily_kWh |-> Div(v.yearly_kWh_usable, I(365)),
      yearly_kWh |-> v.yearly_kWh_usable,
      monthly_kWh |-> v.monthly_kWh_usable,
      installed_capacity_kWp |-> v.finalP_dc_kWp,
      n_panels |-> v.cap.num_panels,
      dc_capacity_kWp |-> v.finalP_dc_kWp,
      ac_capacity_kW |-> v.cap.P_ac_kW,
      kWh_per_kWp_per_year |-> v.specific_yield_kwh_kwp_calibrated,
      calibrated_yearly_kWh |-> v.yearly_kWh_calibrated,
      calibrated_kWh_per_kWp_per_year |-> v.specific_yield_kwh_kwp_calibrated,
      ghi_units |-> "kWh/m2/day",
      irradiance_units |-> "kWh/m2/day" ]

pvOutcome(v) == [ console |-> pvConsole(v), result |-> pvResult(v) ]

\* The whole function: its return value and what it writes to the console.
computePVFromZonalStats(area_m2, layers, systemConfig, options) ==
    pvOutcome(pvMonthly(pvUsable(pvSpecificYield(pvCalibrated(pvBase(pvYield(
        pvCapacity(pvInputs(area_m2, layers, systemConfig, options)))))))))

----------------------------------------------------------------------------
(* The compute-pv request handler and its inputs *)

NoResult == [ none |-> TRUE ]
NoResponse == [ status |-> 0 ]

\* pvConfig of the handler: a preset name, a custom object, or nothing
pvConfigOf(systemConfig) ==
    IF systemConfig = "custom" THEN CustomConfig
    ELSE IF systemConfig \in DOMAIN PV_SYSTEM_PRESETS THEN PV_SYSTEM_PRESETS[systemConfig]
    ELSE PV_SYSTEM_PRESETS.smallResidential

\* !area_m2 || area_m2 <= 0
areaRejected(area_m2) == ~Truthy(area_m2) \/ Le(area_m2, I(0))

\* The explored requests are three sweeps around the request of a small
\* roof: a sweep of the sizing inputs, a sweep of the reference-yield inputs
\* and a sweep of the technology, temperature and grid inputs.
Areas == { I(0), I(1), I(10) } \cup { I(50 * k) : k \in 1..MaxAreaStep }
SystemConfigs == { "smallResidential", "groundMounted", "custom" }
Temps == { I(60) } \cup { I(100 * k) : k \in (-MaxTempStep)..MaxTempStep }
GhiMeans == { I(4), Q(55, 10) }
PvoutMeans == { I(0), I(4), I(10), I(1500), I(2500) }
Latitudes == { Undef, I(0), I(-35), I(60) }
Overrides == { Undef } \cup { I(10 * k) : k \in 0..MaxOverride }

\* monthly PVOUT layers: the first n months are present, the first k of
\* them hold hi and the others lo
NoMonthly == [ n |-> 0, lo |-> I(0), hi |-> I(0), k |-> 0 ]
MonthlyTotals == [ n |-> 12, lo |-> I(90), hi |-> I(110), k |-> 6 ]
MonthlyCases ==
    { NoMonthly,
      [ n |-> 11, lo |-> I(90), hi |-> I(110), k |-> 6 ],
      [ n |-> 12, lo |-> I(4),  hi |-> I(5),   k |-> 2 ],
      [ n |-> 12, lo |-> I(8),  hi |-> I(9),   k |-> 4 ],
      MonthlyTotals,
      [ n |-> 12, lo |-> I(0),  hi |-> I(0),   k |-> 0 ] }

OneLayer(key, choice) ==
    IF choice = Undef THEN << >> ELSE (key :> choice)

MonthlyLayers(m) ==
    [ key \in { MonthKeys[i] : i \in 1..m.n } |->
        LET i == CHOOSE j \in 1..12 : MonthKeys[j] = key
        IN  IF i <= m.k THEN m.hi ELSE m.lo ]

LayersOf(g, p, t, m) ==
    OneLayer("GHI", g) @@ OneLayer("PVOUT", p) @@ OneLayer("TEMP", t) @@ MonthlyLayers(m)

Request(a, g, p, t, m, c, o, lat, tech, grid) ==
    [ area_m2 |-> a, layers |-> LayersOf(g, p, t, m), systemConfig |-> c,
      installed_capacity_kWp |-> o, latitude |-> lat, longitude |-> Undef,
      useTiltCorrection |-> FALSE, panelTechnology |-> tech, gridType |-> grid ]

SizingRequests ==
    { Request(a, I(4), I(1500), Undef, MonthlyTotals, c, o, Undef, tech, "on_grid") :
      a \in Areas, c \in SystemConfigs, o \in Overrides, tech \in PanelTechnology }

YieldRequests ==
    { Request(I(10), g, p, Undef, m, c, Undef, lat, "mono", "on_grid") :
      g \in GhiMeans \cup {Undef}, p \in PvoutMeans \cup {Undef},
      m \in MonthlyCases, c \in {"smallResidential", "custom"}, lat \in Latitudes }

TechGridRequests ==
    { Request(I(10), I(4), I(1500), t, NoMonthly, "smallResidential", o, Undef, tech, grid) :
      t \in Temps \cup {Undef}, o \in Overrides,
      tech \in PanelTechnology, grid \in GridSystemType }

\* the requests of a site that ask for the tilt correction
SiteLongitude == I(75)
TiltRequests ==
    { [ r EXCEPT !.useTiltCorrection = TRUE, !.longitude = SiteLongitude ] :
      r \in { y \in YieldRequests : y.latitude # Undef } }

\* requests without PVOUT, at latitudes on both sides of every band of the
\* seasonal model
SeasonLatitudes ==
    { I(0), I(10), I(-10), I(14), I(15), I(29), I(30), I(-35), I(44), I(45),
      I(60), I(-95) }
SeasonRequests ==
    { Request(I(10), g, Undef, Undef, NoMonthly, "smallResidential", Undef, lat,
              "mono", grid) :
      g \in GhiMeans, lat \in SeasonLatitudes, grid \in GridSystemType }

Requests ==
    SizingRequests \cup YieldRequests \cup TechGridRequests \cup TiltRequests
    \cup SeasonRequests

OptionsOf(r) ==
    [ installed_capacity_kWp |-> r.installed_capacity_kWp, latitude |-> r.latitude,
      longitude |-> r.longitude, useTiltCorrection |-> r.useTiltCorrection,
      panelTechnology |-> r.panelTechnology, gridType |-> r.gridType ]

Init ==
    /\ pc = "idle"
    /\ req \in Requests
    /\ ret = NoResult
    /\ res = NoResponse
    /\ console = << >>
    /\ results = << >>
    /\ tasks = << >>

\* POST /api/gis/compute-pv with an invalid area: 400
ComputePVReject ==
    /\ pc = "idle"
    /\ areaRejected(req.area_m2)
    /\ res' = [ status |-> 400, error |-> "area_m2 must be a positive number" ]
    /\ pc' = "responded"
    /\ UNCHANGED <<req, ret, console, results, tasks>>

\* the 200 response of the handler
okResponse(pv, layers, pvConfig) ==
    [ status |-> 200, success |-> TRUE, pv |-> pv,
      layers |-> layers, systemConfig |-> pvConfig ]

\* the effects of a call that returned `out`
Respond(out, pvConfig) ==
    /\ ret' = out.result
    /\ console' = console \o out.console
    /\ res' = okResponse(out.result, req.layers, pvConfig)

Return(out) ==
    /\ ret' = out.result
    /\ console' = console \o out.console

\* POST /api/gis/compute-pv with pre-sampled layers: 200 and the PV result
ComputePV ==
    /\ pc = "idle"
    /\ ~areaRejected(req.area_m2)
    /\ Respond(computePVFromZonalStats(req.area_m2, req.layers,
                                       pvConfigOf(req.systemConfig), OptionsOf(req)),
               pvConfigOf(req.systemConfig))
    /\ pc' = "responded"
    /\ UNCHANGED <<req, results, tasks>>

\* computePVFromZonalStats called by another caller of the service
\* (computePVForConfig, computePVWithMonthly), with no validation before it
CallComputePVFromZonalStats ==
    /\ pc = "idle"
    /\ Return(computePVFromZonalStats(req.area_m2, req.layers,
                                      pvConfigOf(req.systemConfig), OptionsOf(req)))
    /\ pc' = "returned"
    /\ UNCHANGED <<req, res, results, tasks>>

Next ==
    \/ ComputePVReject
    \/ ComputePV
    \/ CallComputePVFromZonalStats

Spec == Init /\ [][Next]_vars

----------------------------------------------------------------------------
(* Properties *)

\* a call of computePVFromZonalStats has returned its result
Returned == pc # "idle" /\ ret # NoResult

\* the object of the 'Calculation Debug' log line, the last line written
DebugData == console[Len(console)].data
AnnualYieldUsed == DebugData.Annual_Specific_Yield

AllMonthsPresent == \A i \in 1..12 : MonthKeys[i] \in DOMAIN req.layers
ReqMonthlySum == SumUpTo([ i \in 1..12 |-> req.layers[MonthKeys[i]] ], 12)
ReqGhi == IF "GHI" \in DOMAIN req.layers THEN req.layers["GHI"] ELSE I(0)

\* the sizing inputs in force for the request
ReqConfig == pvConfigOf(req.systemConfig)
ReqTech == PanelTechProfiles[req.panelTechnology]
ReqModuleArea == IF ReqConfig.moduleArea = Undef THEN ReqTech.moduleArea ELSE ReqConfig.moduleArea
ReqModulePowerW == IF ReqConfig.modulePowerW = Undef THEN ReqTech.modulePowerW ELSE ReqConfig.modulePowerW
ReqPackingFactor == IF ReqConfig.packingFactor = Undef THEN Q(8, 10) ELSE ReqConfig.packingFactor
ReqDcAcRatio == IF ReqConfig.dcAcRatio = Undef THEN Q(115, 100) ELSE ReqConfig.dcAcRatio
GeometricPanels == MathFloor(Div(Mul(req.area_m2, ReqPackingFactor), ReqModuleArea))
GeometricDc == Div(Mul(GeometricPanels, ReqModulePowerW), I(1000))

\* C1: the 12 entries of monthly_kWh_usable of every result sum to its
\* yearly_kWh_usable, on the monthly-reference path and on the latitude path.
C1_MonthlySumsToYearly ==
    Returned => NumEq(SumSeq(ret.monthly_kWh_usable), ret.yearly_kWh_usable)

\* C2: with an invalid or zero area, zero panels or zero DC capacity the
\* computation fails and returns no result, and no result ever carries a
\* NaN or infinite specific yield.
C2_InsufficientAreaFails ==
    /\ ( /\ pc # "idle"
         /\ \/ areaRejected(req.area_m2)
            \/ NumEq(GeometricPanels, I(0))
            \/ NumEq(GeometricDc, I(0)) )
       => ret = NoResult
    /\ Returned => IsFinite(ret.specific_yield_kwh_kwp_calibrated)

\* C3: the sizing is area_eff = area * packingFactor, num_panels =
\* floor(area_eff / moduleArea), P_dc_kWp = num_panels * modulePowerW / 1000,
\* P_ac_kW = P_dc_kWp / dcAcRatio; 100 m2 at 0.8, 1.7 m2, 420 W gives 47
\* panels and 19.74 kWp.
C3_SystemCapacity ==
    /\ LET c == calculateSystemCapacity(I(100), Q(17, 10), I(420), Q(8, 10), Q(115, 100))
       IN  /\ c.area_eff = I(80)
           /\ c.num_panels = I(47)
           /\ c.P_dc_kWp = Q(1974, 100)
           /\ NumEq(Mul(c.P_ac_kW, Q(115, 100)), Q(1974, 100))
    /\ Returned =>
         /\ NumEq(ret.area_effective_m2, Mul(req.area_m2, ReqPackingFactor))
         /\ ret.num_panels[2] = 1
         /\ Le(Mul(ret.num_panels, ReqModuleArea), ret.area_effective_m2)
         /\ Lt(ret.area_effective_m2, Mul(Add(ret.num_panels, I(1)), ReqModuleArea))
         /\ NumEq(Mul(Mul(ret.P_ac_kW, ReqDcAcRatio), I(1000)),
                  Mul(ret.num_panels, ReqModulePowerW))
         /\ ~Truthy(req.installed_capacity_kWp) =>
               NumEq(Mul(ret.P_dc_kWp, I(1000)), Mul(ret.num_panels, ReqModulePowerW))

C3_Witness ==
    /\ Returned
    /\ req.area_m2 = I(100) /\ req.systemConfig = "custom"
    /\ req.panelTechnology = "mono" /\ req.installed_capacity_kWp = Undef
    /\ ret.num_panels = I(47) /\ ret.P_dc_kWp = Q(1974, 100)

\* C4: with all 12 monthly reference values the annual specific yield is
\* sum * 30.4375 when the sum is below 100 and the sum otherwise
\* (50 -> 1521.875, 1200 -> 1200, exactly 100 -> 100).
C4_MonthlyUnitResolution ==
    (Returned /\ AllMonthsPresent) =>
        /\ Lt(ReqMonthlySum, I(100)) =>
              NumEq(AnnualYieldUsed, Mul(ReqMonthlySum, Q(304375, 10000)))
        /\ Ge(ReqMonthlySum, I(100)) => NumEq(AnnualYieldUsed, ReqMonthlySum)
        /\ ReqMonthlySum = I(50) => AnnualYieldUsed = Q(1521875, 1000)
        /\ ReqMonthlySum = I(1200) => AnnualYieldUsed = I(1200)
        /\ ReqMonthlySum = I(100) => AnnualYieldUsed = I(100)

C4_Witness ==
    /\ Returned /\ AllMonthsPresent
    /\ ReqMonthlySum = I(100) /\ AnnualYieldUsed = I(100)

\* C5: without 12 monthly values and with a positive reference yield, the
\* annual specific yield is value * 365 when the value is below 10 and the
\* value otherwise (exactly 10 is annual).
C5_ScalarUnitResolution ==
    ( /\ Returned /\ ~AllMonthsPresent
      /\ "PVOUT" \in DOMAIN req.layers
      /\ Gt(LayerMean(req.layers, "PVOUT"), I(0)) ) =>
        LET p == req.layers["PVOUT"]
        IN  /\ Lt(p, I(10)) => NumEq(AnnualYieldUsed, Mul(p, I(365)))
            /\ Ge(p, I(10)) => NumEq(AnnualYieldUsed, p)
            /\ p = I(4) => AnnualYieldUsed = I(1460)
            /\ p = I(10) => AnnualYieldUsed = I(10)

C5_Witness ==
    /\ Returned /\ ~AllMonthsPresent
    /\ LayerMean(req.layers, "PVOUT") = I(10)
    /\ AnnualYieldUsed = I(10)

\* C6: with no 12 monthly values and no annual reference value the annual
\* specific yield is GHI_mean * 365 * performanceRatio (5.5 at 0.75 gives
\* 1505.625).
C6_GhiFallback ==
    (Returned /\ ~AllMonthsPresent /\ "PVOUT" \notin DOMAIN req.layers) =>
        /\ NumEq(AnnualYieldUsed, Mul(Mul(ReqGhi, I(365)), ReqConfig.performanceRatio))
        /\ (ReqGhi = Q(55, 10) /\ ReqConfig.performanceRatio = Q(75, 100)) =>
              AnnualYieldUsed = Q(1505625, 1000)

C6_Witness ==
    /\ Returned /\ ~AllMonthsPresent /\ "PVOUT" \notin DOMAIN req.layers
    /\ ReqGhi = Q(55, 10) /\ ReqConfig.performanceRatio = Q(75, 100)
    /\ AnnualYieldUsed = Q(1505625, 1000)

\* C7: f_tech_temp of every result lies in [0.90, 1.05], for every
\* technology and every ambient temperature.
C7_TechFactorClamped ==
    Returned => Le(Q(90, 100), ret.f_tech_temp) /\ Le(ret.f_tech_temp, Q(105, 100))

C7_Witness ==
    /\ Returned
    /\ req.panelTechnology = "thinfilm"
    /\ LayerMean(req.layers, "TEMP") = I(60)
    /\ ret.f_tech_temp = Q(105, 100)

\* what C8 says of a result computed with the override o
OverrideInForce(o) ==
    /\ ret.P_dc_kWp = o
    /\ ret.dc_capacity_kWp = o
    /\ ret.installed_capacity_kWp = o
    /\ NumEq(ret.yearly_kWh_calibrated, Mul(Mul(o, AnnualYieldUsed), ret.f_tech_temp))
    /\ ret.specific_yield_kwh_kwp_calibrated = Div(ret.yearly_kWh_calibrated, o)
    /\ ret.num_panels = GeometricPanels
    /\ ret.area_effective_m2 = Mul(req.area_m2, ReqPackingFactor)

\* C8 as stated: whenever an installed-capacity override is supplied, it
\* replaces the derived DC capacity in the energy computation and in the
\* reported DC capacity, the panel count and effective area staying those
\* of the geometric derivation.
C8_AnyOverrideReplaces ==
    (Returned /\ req.installed_capacity_kWp # Undef) =>
        OverrideInForce(req.installed_capacity_kWp)

\* C8 as amended: the same for every override other than 0; an override of
\* 0 is ignored and the derived DC capacity is used.
C8_NonZeroOverrideReplaces ==
    /\ (Returned /\ Truthy(req.installed_capacity_kWp)) =>
          OverrideInForce(req.installed_capacity_kWp)
    /\ (Returned /\ req.installed_capacity_kWp = I(0)) =>
          /\ ret.P_dc_kWp = GeometricDc
          /\ ret.num_panels = GeometricPanels

C8_Witness ==
    /\ Returned
    /\ req.installed_capacity_kWp = I(10)
    /\ req.area_m2 = I(100) /\ req.systemConfig = "custom" /\ req.panelTechnology = "mono"
    /\ ret.P_dc_kWp = I(10) /\ ret.num_panels = I(47)
    /\ GeometricDc = Q(1974, 100)

\* the calibrated specific yield of the result is outside 900..2200
OutOfBand ==
    \/ Lt(ret.specific_yield_kwh_kwp_calibrated, I(900))
    \/ Gt(ret.specific_yield_kwh_kwp_calibrated, I(2200))

\* fields of the result a consumer could read a warning from
ResultWarningFields ==
    DOMAIN ret \cap { "warning", "warnings", "suspicious", "is_suspicious", "flags" }

SuspiciousYieldLogged ==
    \E i \in 1..Len(console) :
        /\ console[i].level = "warn"
        /\ console[i].msg = "Suspicious Specific Yield"
        /\ console[i].data.value = ToFixed1(ret.specific_yield_kwh_kwp_calibrated)

ClaimedUsableFraction(gridType) ==
    CASE gridType = "on_grid" -> I(1)
      [] gridType = "hybrid" -> Q(95, 100)
      [] gridType = "off_grid" -> Q(85, 100)

TiltCorrectionRequested ==
    /\ req.useTiltCorrection
    /\ req.latitude # Undef
    /\ req.longitude # Undef
    /\ ~NumEq(ReqConfig.tilt, I(0))

\* the annual yield is derived from the irradiance: no PVOUT reference
GhiPath ==
    /\ ~AllMonthsPresent
    /\ "PVOUT" \notin DOMAIN req.layers
    /\ "GHI" \in DOMAIN req.layers

\* the annual yield of the horizontal irradiance of the request
HorizontalYield == Mul(Mul(ReqGhi, I(365)), ReqConfig.performanceRatio)

\* C20: when the tilt correction is requested for a tilted plane, the energy
\* derived from the irradiance is not the one of the horizontal GHI: the
\* annual yield used differs from GHI x 365 x PR and the result differs
\* from the result of the same request without the correction.
C20_TiltCorrectionApplied ==
    (Returned /\ TiltCorrectionRequested /\ GhiPath)
        => /\ ~NumEq(AnnualYieldUsed, HorizontalYield)
           /\ ret # computePVFromZonalStats(
                        req.area_m2, req.layers, ReqConfig,
                        [ OptionsOf(req) EXCEPT !.useTiltCorrection = FALSE ]).result

\* C21: in every result the legacy aliases hold the values of their v2
\* fields: n_panels = num_panels, installed_capacity_kWp = dc_capacity_kWp =
\* P_dc_kWp, ac_capacity_kW = P_ac_kW, yearly_kWh = calibrated_yearly_kWh =
\* yearly_kWh_calibrated, kWh_per_kWp_per_year =
\* calibrated_kWh_per_kWp_per_year = specific_yield_kwh_kwp_calibrated.
C21_LegacyAliases ==
    Returned
        => /\ ret.n_panels = ret.num_panels
           /\ ret.installed_capacity_kWp = ret.P_dc_kWp
           /\ ret.dc_capacity_kWp = ret.P_dc_kWp
           /\ ret.ac_capacity_kW = ret.P_ac_kW
           /\ ret.calibrated_yearly_kWh = ret.yearly_kWh_calibrated
           /\ ret.kWh_per_kWp_per_year = ret.specific_yield_kwh_kwp_calibrated
           /\ ret.calibrated_kWh_per_kWp_per_year = ret.specific_yield_kwh_kwp_calibrated
           /\ ret.yearly_kWh = ret.yearly_kWh_calibrated

----------------------------------------------------------------------------
(* The raster sampler (geoTiffService.ts)                                  *)
(*                                                                         *)
(* A GeoTIFF image is a record: whether the file exists, its width and     *)
(* height in pixels, its bounding box <<minX, minY, maxX, maxY>>, its      *)
(* pixel values in row-major order (row 0 is the northernmost) and its     *)
(* nodata value.  A polygon is its outer ring: a sequence of <<lon, lat>>  *)
(* positions whose last position repeats the first.                        *)

MathCeil(x) == Neg(MathFloor(Neg(x)))

\* largest k in lo..hi with k * k <= n
RECURSIVE ISqrtIn(_, _, _)
ISqrtIn(n, lo, hi) ==
    IF lo >= hi THEN lo
    ELSE LET mid == (lo + hi + 1) \div 2
         IN  IF mid * mid <= n THEN ISqrtIn(n, mid, hi) ELSE ISqrtIn(n, lo, mid - 1)

ISqrt(n) == ISqrtIn(n, 0, IF n < 46340 THEN n ELSE 46340)

\* Math.sqrt of a number: exact when the value is the square of a
\* rational, rounded down to a multiple of 1 / (d * SqrtScale) otherwise
\* (to a whole number when the value is too large for that resolution)
SqrtScale == 10

MathSqrt(x0) ==
    LET x == ToNum(x0)
    IN  IF IsNaN(x) \/ Lt(x, I(0)) THEN NaN
        ELSE IF ~IsFinite(x) THEN x
        ELSE IF x[1] > 2147483647 \div (x[2] * SqrtScale * SqrtScale)
        THEN I(ISqrt(x[1] \div x[2]))
        ELSE Q(ISqrt(x[1] * x[2] * SqrtScale * SqrtScale), x[2] * SqrtScale)

MinNum(S) == CHOOSE x \in S : \A y \in S : Le(x, y)
MaxNum(S) == CHOOSE x \in S : \A y \in S : Ge(x, y)

\* const lonToX = (lon) => ((lon - imageMinX) / (imageMaxX - imageMinX)) * (width - 1)
lonToX(image, lon) ==
    Mul(Div(Sub(lon, image.bbox[1]), Sub(image.bbox[3], image.bbox[1])),
        I(image.width - 1))

\* const latToY = (lat) => ((imageMaxY - lat) / (imageMaxY - imageMinY)) * (height - 1)
latToY(image, lat) ==
    Mul(Div(Sub(image.bbox[4], lat), Sub(image.bbox[4], image.bbox[2])),
        I(image.height - 1))

\* lon and lat of the center of pixel (globalX, globalY)
pixelLon(image, globalX) ==
    Add(image.bbox[1],
        Div(Mul(Add(I(globalX), Q(1, 2)), Sub(image.bbox[3], image.bbox[1])),
            I(image.width)))

pixelLat(image, globalY) ==
    Sub(image.bbox[4],
        Div(Mul(Add(I(globalY), Q(1, 2)), Sub(image.bbox[4], image.bbox[2])),
            I(image.height)))

\* turf.bbox: [minX, minY, maxX, maxY] of the positions of the ring
turfBbox(ring) ==
    << MinNum({ ring[i][1] : i \in 1..Len(ring) }),
       MinNum({ ring[i][2] : i \in 1..Len(ring) }),
       MaxNum({ ring[i][1] : i \in 1..Len(ring) }),
       MaxNum({ ring[i][2] : i \in 1..Len(ring) }) >>

\* the positions of the ring without the closing one
openRing(ring) ==
    IF Len(ring) > 1 /\ ring[1] = ring[Len(ring)]
    THEN SubSeq(ring, 1, Len(ring) - 1) ELSE ring

\* turf.centroid: the mean of the positions of the ring, the closing
\* position excluded
turfCentroid(ring) ==
    LET r == openRing(ring)
    IN  << Div(SumSeq([ i \in 1..Len(r) |-> r[i][1] ]), I(Len(r))),
           Div(SumSeq([ i \in 1..Len(r) |-> r[i][2] ]), I(Len(r))) >>

\* turf.booleanPointInPolygon of a polygon without holes: a point on the
\* boundary is inside; otherwise the parity of the edges a ray crosses
onBoundary(pt, a, b) ==
    /\ Add(Add(Mul(pt[2], Sub(a[1], b[1])), Mul(a[2], Sub(b[1], pt[1]))),
           Mul(b[2], Sub(pt[1], a[1]))) = I(0)
    /\ Le(Mul(Sub(a[1], pt[1]), Sub(b[1], pt[1])), I(0))
    /\ Le(Mul(Sub(a[2], pt[2]), Sub(b[2], pt[2])), I(0))

crossesRay(pt, a, b) ==
    /\ Gt(a[2], pt[2]) # Gt(b[2], pt[2])
    /\ Lt(pt[1], Add(Div(Mul(Sub(b[1], a[1]), Sub(pt[2], a[2])), Sub(b[2], a[2])), a[1]))

booleanPointInPolygon(pt, ring) ==
    LET r == openRing(ring)
        n == Len(r)
        prev(i) == IF i = 1 THEN n ELSE i - 1
    IN  \/ \E i \in 1..n : onBoundary(pt, r[i], r[prev(i)])
        \/ Cardinality({ i \in 1..n : crossesRay(pt, r[i], r[prev(i)]) }) % 2 = 1

samplingStep_Per1000(windowWidth, windowHeight) ==
    LET k == ISqrt(windowWidth * windowHeight) \div 1000
    IN  IF k > 1 THEN k ELSE 1

\* const step = Math.max(1, Math.floor(Math.sqrt(windowWidth * windowHeight) / 500))
samplingStep(windowWidth, windowHeight) ==
    LET k == ISqrt(windowWidth * windowHeight) \div 500
    IN  IF k > 1 THEN k ELSE 1

\* the number of iterations of the two sampling loops
candidatesPerRow(windowWidth, step) == (windowWidth + step - 1) \div step
candidateCount(windowWidth, windowHeight, step) ==
    candidatesPerRow(windowWidth, step) * candidatesPerRow(windowHeight, step)

\* v !== nodata && v != null && !Number.isNaN(v) && isFinite(v) && v > -9999
isValidSample_AtFloor(v, nodata) ==
    /\ v # nodata
    /\ v # Undef
    /\ ~IsNaN(v)
    /\ IsFinite(v)
    /\ Ge(v, I(-9999))

isValidSample(v, nodata) ==
    /\ v # nodata
    /\ v # Undef
    /\ ~IsNaN(v)
    /\ IsFinite(v)
    /\ Gt(v, I(-9999))

\* the outcome of a call: the statistics returned or the error thrown,
\* with what the call read (the pixels held by the file buffer, the window
\* handed to readRasters) and how the values were found
Thrown(message, v) ==
    [ ok |-> FALSE, error |-> message, stats |-> << >>,
      fileBuffer |-> v.fileBuffer, window |-> v.window,
      sampled |-> v.sampled, fallback |-> v.fallback, values |-> v.values ]

Resolved(stats, v) ==
    [ ok |-> TRUE, error |-> "", stats |-> stats,
      fileBuffer |-> v.fileBuffer, window |-> v.window,
      sampled |-> v.sampled, fallback |-> v.fallback, values |-> v.values ]

\* Pixel range to sample (with padding)
pixelRange(image, ring) ==
    [ xMin |-> MathMax(I(0), MathFloor(lonToX(image, turfBbox(ring)[1]))),
      xMax |-> MathMin(I(image.width - 1), MathCeil(lonToX(image, turfBbox(ring)[3]))),
      yMin |-> MathMax(I(0), MathFloor(latToY(image, turfBbox(ring)[4]))),
      yMax |-> MathMin(I(image.height - 1), MathCeil(latToY(image, turfBbox(ring)[2]))) ]

\* image.readRasters({ window: [xMin, yMin, xMax + 1, yMax + 1] }): the
\* first band of the window, row by row
readRasters(image, window) ==
    [ i \in 1..((window[3] - window[1]) * (window[4] - window[2])) |->
        image.data[ (window[2] + (i - 1) \div (window[3] - window[1])) * image.width
                    + window[1] + ((i - 1) % (window[3] - window[1])) + 1 ] ]

\* the body of the sampling loops for the k-th candidate (k = 1, 2, ...):
\* the value pushed, or Undef when nothing is pushed
sampleAt(v, k) ==
    LET x == ((k - 1) % candidatesPerRow(v.windowWidth, v.step)) * v.step
        y == ((k - 1) \div candidatesPerRow(v.windowWidth, v.step)) * v.step
        idx == y * v.windowWidth + x
    IN  IF /\ booleanPointInPolygon(<< pixelLon(v.image, v.window[1] + x),
                                       pixelLat(v.image, v.window[2] + y) >>, v.ring)
           /\ idx >= 0 /\ idx < Len(v.rasterArray)
           /\ isValidSample(v.rasterArray[idx + 1], v.image.nodata)
        THEN v.rasterArray[idx + 1]
        ELSE Undef

strideValues(v) ==
    SelectSeq([ k \in 1..candidateCount(v.windowWidth, v.windowHeight, v.step) |->
                  sampleAt(v, k) ],
              LAMBDA s : s # Undef)

\* Fallback: the pixel of the centroid
centroidValues_WholeRasterIndex(v) ==
    LET cX == MathFloor(lonToX(v.image, turfCentroid(v.ring)[1]))[1]
        cY == MathFloor(latToY(v.image, turfCentroid(v.ring)[2]))[1]
        idx == cY * v.image.width + cX
    IN  IF /\ cX >= v.window[1] /\ cX <= v.window[3] - 1
           /\ cY >= v.window[2] /\ cY <= v.window[4] - 1
           /\ idx >= 0 /\ idx < Len(v.rasterArray)
           /\ isValidSample(v.rasterArray[idx + 1], v.image.nodata)
        THEN << v.rasterArray[idx + 1] >>
        ELSE << >>

centroidValues(v) ==
    LET cX == MathFloor(lonToX(v.image, turfCentroid(v.ring)[1]))[1]
        cY == MathFloor(latToY(v.image, turfCentroid(v.ring)[2]))[1]
        idx == (cY - v.window[2]) * v.windowWidth + (cX - v.window[1])
    IN  IF /\ cX >= v.window[1] /\ cX <= v.window[3] - 1
           /\ cY >= v.window[2] /\ cY <= v.window[4] - 1
           /\ idx >= 0 /\ idx < Len(v.rasterArray)
           /\ isValidSample(v.rasterArray[idx + 1], v.image.nodata)
        THEN << v.rasterArray[idx + 1] >>
        ELSE << >>

\* Compute statistics
zonalStats_UpperMedian(pushed) ==
    LET values == SortSeq(pushed, LAMBDA a, b : Lt(a, b))
        n == Len(values)
        mean == Div(SumSeq(values), I(n))
    IN  [ mean |-> mean,
          median |-> values[(n \div 2) + 1],
          min |-> values[1],
          max |-> values[n],
          std |-> MathSqrt(Div(SumSeq([ i \in 1..n |->
                                          Mul(Sub(values[i], mean), Sub(values[i], mean)) ]),
                               I(n))),
          count |-> n,
          units |-> "kWh/m2/day" ]

zonalStats(pushed) ==
    LET values == SortSeq(pushed, LAMBDA a, b : Lt(a, b))
        n == Len(values)
        mean == Div(SumSeq(values), I(n))
    IN  [ mean |-> mean,
          median |-> IF n % 2 = 0
                     THEN Div(Add(values[n \div 2], values[(n \div 2) + 1]), I(2))
                     ELSE values[(n \div 2) + 1],
          min |-> values[1],
          max |-> values[n],
          std |-> MathSqrt(Div(SumSeq([ i \in 1..n |->
                                          Mul(Sub(values[i], mean), Sub(values[i], mean)) ]),
                               I(n))),
          count |-> n,
          units |-> "kWh/m2/day" ]

\* if (values.length === 0) throw ...; otherwise the statistics
smpStats(v, values) ==
    IF Len(values) = 0
    THEN Thrown("No valid pixels found in polygon. Check if polygon overlaps with GeoTIFF coverage area.", v)
    ELSE Resolved(zonalStats(values), v)

\* Fallback: if no pixels found, sample the centroid
smpFallback(v, values) ==
    IF Len(values) = 0
    THEN smpStats([ fallback |-> TRUE, values |-> centroidValues(v) ] @@ v,
                  centroidValues(v))
    ELSE smpStats([ sampled |-> Len(values), values |-> values ] @@ v, values)

\* Sample pixels within polygon
smpLoop(v) == smpFallback(v, strideValues(v))

\* Read only the window of interest
smpRead(v) ==
    smpLoop([ rasterArray |-> readRasters(v.image, v.window),
              step |-> samplingStep(v.windowWidth, v.windowHeight) ] @@ v)

\* Ensure valid window
smpWindow(v, r) ==
    IF Gt(r.xMin, r.xMax) \/ Gt(r.yMin, r.yMax)
    THEN Thrown("Polygon is outside GeoTIFF coverage area", v)
    ELSE smpRead([ window |-> << r.xMin[1], r.yMin[1], r.xMax[1] + 1, r.yMax[1] + 1 >>,
                   windowWidth |-> r.xMax[1] - r.xMin[1] + 1,
                   windowHeight |-> r.yMax[1] - r.yMin[1] + 1 ] @@ v)

\* fs.readFileSync(geoTiffPath) loads the whole file; the window is chosen
\* afterwards
sampleGeoTIFFForPolygon(image, ring) ==
    IF ~image.exists
    THEN Thrown("GeoTIFF file not found",
                [ fileBuffer |-> 0, window |-> << >>, sampled |-> 0, fallback |-> FALSE,
                  values |-> << >> ])
    ELSE smpWindow([ image |-> image, ring |-> ring,
                     fileBuffer |-> image.width * image.height,
                     window |-> << >>, sampled |-> 0, fallback |-> FALSE,
                     values |-> << >> ],
                   pixelRange(image, ring))

----------------------------------------------------------------------------
(* The explored rasters and polygons *)

MaxWidth == 3
MaxHeight == 3

\* a raster of half-degree pixels whose north-west corner is 70 E, 30 N;
\* pixel (x, y) holds 10 * (y + 1) + x, except the pixels of `masked`,
\* which hold the nodata value or NaN
NoDataValue == I(-9999)

Image(width, height, masked) ==
    [ exists |-> TRUE, width |-> width, height |-> height,
      bbox |-> << I(70), Sub(I(30), Q(height, 2)), Add(I(70), Q(width, 2)), I(30) >>,
      data |-> [ i \in 1..(width * height) |->
                   IF i \in masked
                   THEN (IF i % 2 = 0 THEN NaN ELSE NoDataValue)
                   ELSE I(10 * (((i - 1) \div width) + 1) + ((i - 1) % width)) ],
      nodata |-> NoDataValue ]

MissingImage == [ Image(2, 2, {}) EXCEPT !.exists = FALSE ]

Masks(width, height) == { {} } \cup { {i} : i \in 1..(width * height) }

\* rasters with another nodata value (none, or 0) and one pixel holding a
\* value at or next to the floor of -9999, 0, the value of the last pixel
\* (21), or an infinite value
Fills == { I(-10000), I(-9999), I(-9998), I(0), I(21), << 1, 0 >>, << -1, 0 >> }

SentinelImage(masked, nodata, fill) ==
    [ Image(2, 2, {}) EXCEPT
        !.data = [ i \in 1..4 |-> IF i \in masked THEN fill ELSE @[i] ],
        !.nodata = nodata ]

SentinelImages ==
    { SentinelImage({1}, Undef, f) : f \in Fills }
    \cup { SentinelImage({4}, I(0), f) : f \in { I(0), I(-9999) } }

Images ==
    UNION { { Image(w, h, m) : m \in Masks(w, h) } :
            w \in 2..MaxWidth, h \in 2..MaxHeight }
    \cup SentinelImages
    \cup { MissingImage }

\* rectangles and right triangles whose corners lie on the grid of quarter
\* pixels, inside the largest raster and up to three pixels outside it
\* (a, c: quarter pixels east of 70 E; b, d: quarter pixels south of 30 N)
Lon(a) == Add(I(70), Q(a, 8))
Lat(b) == Sub(I(30), Q(b, 8))

RectRing(a, b, c, d) ==
    << << Lon(a), Lat(d) >>, << Lon(c), Lat(d) >>, << Lon(c), Lat(b) >>,
       << Lon(a), Lat(b) >>, << Lon(a), Lat(d) >> >>

TriRing(a, b, c, d) ==
    << << Lon(a), Lat(d) >>, << Lon(c), Lat(d) >>, << Lon(a), Lat(b) >>,
       << Lon(a), Lat(d) >> >>

Starts(n) ==
    { -12, -9, -5, -2, -1 } \cup (0..(4 * n)) \cup { 4 * n + 1, 4 * n + 4, 4 * n + 8 }

Extents == { <<1, 1>>, <<1, 6>>, <<6, 6>> }

Rings ==
    { RectRing(a, b, a + e[1], b + e[2]) :
        a \in Starts(MaxWidth), b \in Starts(MaxHeight), e \in Extents }
    \cup { TriRing(a, b, a + 6, b + 6) :
             a \in { k \in Starts(MaxWidth) : k % 2 = 0 },
             b \in { k \in Starts(MaxHeight) : k % 2 = 0 } }

SampleCalls == [ image : Images, ring : Rings ]

SamplerInit ==
    /\ pc = "idle"
    /\ req \in SampleCalls
    /\ ret = NoResult
    /\ res = NoResponse
    /\ console = << >>
    /\ results = << >>
    /\ tasks = << >>

\* one call of sampleGeoTIFFForPolygon
SampleGeoTIFFForPolygon ==
    /\ pc = "idle"
    /\ ret' = sampleGeoTIFFForPolygon(req.image, req.ring)
    /\ pc' = IF ret'.ok THEN "resolved" ELSE "rejected"
    /\ UNCHANGED <<req, res, console, results, tasks>>

SamplerNext == SampleGeoTIFFForPolygon

SamplerSpec == SamplerInit /\ [][SamplerNext]_vars

----------------------------------------------------------------------------
(* Properties of the raster sampler *)

\* a call of sampleGeoTIFFForPolygon has settled
Sampled == pc \in {"resolved", "rejected"}

Pixels(image) == (0..(image.width - 1)) \X (0..(image.height - 1))
PixelValue(image, p) == image.data[p[2] * image.width + p[1] + 1]

\* the ground covered by pixel p: its center half a pixel from each edge
PixelWest(image, p) ==
    Add(image.bbox[1], Div(Mul(I(p[1]), Sub(image.bbox[3], image.bbox[1])), I(image.width)))
PixelEast(image, p) == PixelWest(image, << p[1] + 1, p[2] >>)
PixelNorth(image, p) ==
    Sub(image.bbox[4], Div(Mul(I(p[2]), Sub(image.bbox[4], image.bbox[2])), I(image.height)))
PixelSouth(image, p) == PixelNorth(image, << p[1], p[2] + 1 >>)

\* the pixels whose ground meets the bounding box of the ring
PixelsUnder(image, ring) ==
    { p \in Pixels(image) :
        /\ Le(PixelWest(image, p), turfBbox(ring)[3])
        /\ Le(turfBbox(ring)[1], PixelEast(image, p))
        /\ Le(PixelSouth(image, p), turfBbox(ring)[4])
        /\ Le(turfBbox(ring)[2], PixelNorth(image, p)) }

InsideExtent(image, ring) ==
    /\ Ge(turfBbox(ring)[1], image.bbox[1]) /\ Le(turfBbox(ring)[3], image.bbox[3])
    /\ Ge(turfBbox(ring)[2], image.bbox[2]) /\ Le(turfBbox(ring)[4], image.bbox[4])

OutsideExtent(image, ring) ==
    \/ Lt(turfBbox(ring)[3], image.bbox[1]) \/ Gt(turfBbox(ring)[1], image.bbox[3])
    \/ Lt(turfBbox(ring)[4], image.bbox[2]) \/ Gt(turfBbox(ring)[2], image.bbox[4])

InsideValidRegion(image, ring) ==
    /\ image.exists
    /\ InsideExtent(image, ring)
    /\ \A p \in PixelsUnder(image, ring) : isValidSample(PixelValue(image, p), image.nodata)

OrderedStats(stats) ==
    /\ stats.count > 0
    /\ Le(stats.min, stats.median) /\ Le(stats.median, stats.max)
    /\ Le(stats.min, stats.mean) /\ Le(stats.mean, stats.max)
    /\ Ge(stats.std, I(0))

\* C11: a polygon that lies inside the extent of the raster, over valid
\* pixels only, gets statistics with count > 0, min <= median <= max,
\* min <= mean <= max and std >= 0.
C11_InsideValidRegionSampled ==
    (Sampled /\ InsideValidRegion(req.image, req.ring))
        => (ret.ok /\ OrderedStats(ret.stats))

\* the pixel the sampler looks up for the centroid
CentroidPixel(image, ring) ==
    << MathFloor(lonToX(image, turfCentroid(ring)[1]))[1],
       MathFloor(latToY(image, turfCentroid(ring)[2]))[1] >>

CentroidPixelValid(image, ring) ==
    /\ CentroidPixel(image, ring) \in Pixels(image)
    /\ isValidSample(PixelValue(image, CentroidPixel(image, ring)), image.nodata)

SingleSample(stats, value) ==
    /\ stats.count = 1
    /\ stats.mean = value /\ stats.median = value
    /\ stats.min = value /\ stats.max = value
    /\ stats.std = I(0)

WindowPixels(window) ==
    [ k \in 1..((window[3] - window[1]) * (window[4] - window[2])) |->
        << window[1] + ((k - 1) % (window[3] - window[1])),
           window[2] + ((k - 1) \div (window[3] - window[1])) >> ]

CenterInRing(image, ring, p) ==
    booleanPointInPolygon(<< pixelLon(image, p[1]), pixelLat(image, p[2]) >>, ring)

ValuesInRing(image, ring, window) ==
    LET inRing == SelectSeq(WindowPixels(window),
                            LAMBDA p : CenterInRing(image, ring, p))
    IN  [ k \in 1..Len(inRing) |-> PixelValue(image, inRing[k]) ]

InWindow(window, p) ==
    /\ p[1] >= window[1] /\ p[1] < window[3]
    /\ p[2] >= window[2] /\ p[2] < window[4]

\* the accepted values under an acceptance test, given the values the
\* loops looked up and the pixel of the centroid
AcceptedUnder(Accepts(_, _), image, ring, window) ==
    LET looked == ValuesInRing(image, ring, window)
        byLoops == SelectSeq(looked, LAMBDA x : Accepts(x, image.nodata))
        c == CentroidPixel(image, ring)
    IN  IF byLoops # << >> THEN byLoops
        ELSE IF InWindow(window, c) /\ Accepts(PixelValue(image, c), image.nodata)
        THEN << PixelValue(image, c) >>
        ELSE << >>

\* not the nodata value, finite, and not below -9999
NotBelowFloor(x, nodata) ==
    /\ x # nodata /\ ~IsNaN(x) /\ IsFinite(x) /\ Ge(x, I(-9999))

\* not the nodata value, finite, and above -9999
AboveFloor(x, nodata) ==
    /\ x # nodata /\ ~IsNaN(x) /\ IsFinite(x) /\ Gt(x, I(-9999))

\* C22 as stated: a value the loops or the centroid fallback look up is
\* accepted if and only if it is not the nodata value, is finite and is
\* not below -9999.
C22_AcceptedIffNotBelowFloor ==
    (Sampled /\ ret.window # << >>)
        => ret.values = AcceptedUnder(NotBelowFloor, req.image, req.ring, ret.window)

\* C22: a value the loops or the centroid fallback look up is accepted if
\* and only if it is not the nodata value, is finite and is greater than
\* -9999 (a value of exactly -9999 is rejected whatever the nodata value).
C22_AcceptedIffAboveFloor ==
    (Sampled /\ ret.window # << >>)
        => ret.values = AcceptedUnder(AboveFloor, req.image, req.ring, ret.window)

\* a value next to the floor is accepted and one on the floor rejected
C22_Witness ==
    /\ Sampled /\ ret.ok
    /\ req.image.nodata = Undef
    /\ \/ /\ ret.values = << I(-9998) >>
          /\ ret.fallback
       \/ /\ req.image.data[1] = I(-9999)
          /\ Len(ValuesInRing(req.image, req.ring, ret.window)) = Len(ret.values) + 1
          /\ Len(ret.values) >= 2

\* the k-th smallest of the accepted values, equal values counted apart
AtMost(values, x) == Cardinality({ i \in 1..Len(values) : Le(values[i], x) })
Below(values, x) == Cardinality({ i \in 1..Len(values) : Lt(values[i], x) })
KthSmallest(values, k) ==
    CHOOSE x \in { values[i] : i \in 1..Len(values) } :
        Below(values, x) < k /\ k <= AtMost(values, x)

\* C26: the median is the middle one of the accepted values in ascending
\* order when their count is odd and the average of the two central ones
\* when it is even; min and max are the smallest and the largest.
C26_MedianOfSorted ==
    (Sampled /\ ret.ok)
        => LET n == Len(ret.values)
           IN  /\ ret.stats.count = n
               /\ ret.stats.min = KthSmallest(ret.values, 1)
               /\ ret.stats.max = KthSmallest(ret.values, n)
               /\ n % 2 = 1 => ret.stats.median = KthSmallest(ret.values, (n + 1) \div 2)
               /\ n % 2 = 0
                     => ret.stats.median =
                            Div(Add(KthSmallest(ret.values, n \div 2),
                                    KthSmallest(ret.values, (n \div 2) + 1)), I(2))

\* an even number of values, accepted out of order, whose two central
\* ones differ, one of them tied with the largest
C26_Witness ==
    /\ Sampled /\ ret.ok
    /\ Len(ret.values) = 4
    /\ KthSmallest(ret.values, 2) # KthSmallest(ret.values, 3)
    /\ KthSmallest(ret.values, 3) = KthSmallest(ret.values, 4)
    /\ ret.values[1] # KthSmallest(ret.values, 1)

\* C13: a polygon whose bounding box lies outside the extent of the raster
\* fails with the out-of-coverage error.
C13_OutsideIsOutOfCoverage ==
    (Sampled /\ req.image.exists /\ OutsideExtent(req.image, req.ring))
        => (~ret.ok /\ ret.error = "Polygon is outside GeoTIFF coverage area")

\* C14: the center of every pixel maps back to the index of that pixel.
C14_PixelRoundTrip ==
    (Sampled /\ req.image.exists)
        => \A p \in Pixels(req.image) :
              /\ MathFloor(lonToX(req.image, pixelLon(req.image, p[1]))) = I(p[1])
              /\ MathFloor(latToY(req.image, pixelLat(req.image, p[2]))) = I(p[2])

\* C18: the pixels the call loads from the file are those of the window.
C18_ReadsOnlyWindow ==
    (Sampled /\ ret.window # << >>)
        => ret.fileBuffer
              <= (ret.window[3] - ret.window[1]) * (ret.window[4] - ret.window[2])

----------------------------------------------------------------------------
(* The sampling step on large windows *)

MaxSideStep == 6

\* window sides around the multiples of 500 pixels, and strips a few pixels
\* wide
WindowSides ==
    { 1, 2, 3, 4 } \cup { 500 * k + d : k \in 1..MaxSideStep, d \in { -1, 0, 1 } }
StripSides == { 249999, 250001, 749999, 999999, 2249999 }

Windows ==
    { [ windowWidth |-> w, windowHeight |-> h ] : w \in WindowSides, h \in WindowSides }
    \cup { [ windowWidth |-> w, windowHeight |-> h ] : w \in { 1, 2, 3, 4 }, h \in StripSides }
    \cup { [ windowWidth |-> w, windowHeight |-> h ] : w \in StripSides, h \in { 1, 2, 3, 4 } }

StrideInit ==
    /\ pc = "idle"
    /\ req \in Windows
    /\ ret = NoResult
    /\ res = NoResponse
    /\ console = << >>
    /\ results = << >>
    /\ tasks = << >>

\* the step and the iterations of the sampling loops for a window
ChooseStep ==
    /\ pc = "idle"
    /\ ret' = [ step |-> samplingStep(req.windowWidth, req.windowHeight),
                candidates |->
                    candidateCount(req.windowWidth, req.windowHeight,
                                   samplingStep(req.windowWidth, req.windowHeight)) ]
    /\ pc' = "stepped"
    /\ UNCHANGED <<req, res, console, results, tasks>>

StrideNext == ChooseStep

StrideSpec == StrideInit /\ [][StrideNext]_vars

\* C17 as stated: the candidates stay bounded by about 250,000 (read
\* generously: at most twice that) for every window, and the step is 1
\* for windows of fewer than 250,000 pixels.
C17_CandidatesAboutQuarterMillion ==
    pc = "stepped"
        => /\ ret.candidates <= 2 * 250000
           /\ (req.windowWidth * req.windowHeight < 250000 => ret.step = 1)

\* C17 amended: for every window whose sides are at least the step, the
\* candidates stay below 1,000,000 (four times 250,000); every pixel is a
\* candidate (step 1) for every window of fewer than 1,000,000 pixels.
C17_CandidatesBelowMillion ==
    pc = "stepped"
        => /\ (req.windowWidth >= ret.step /\ req.windowHeight >= ret.step)
                => ret.candidates < 1000000
           /\ (req.windowWidth * req.windowHeight < 1000000)
                => (ret.step = 1 /\ ret.candidates = req.windowWidth * req.windowHeight)

C17_Witness ==
    /\ pc = "stepped"
    /\ ret.step = 1
    /\ ret.candidates > 2 * 250000

----------------------------------------------------------------------------
(* Sampling several layers for one polygon (sampleMultipleLayers) and the  *)
(* two handlers that call it (sampleGHI, computePV).                       *)
(*                                                                         *)
(* Each layer is sampled by its own task; the tasks settle in any order.   *)
(* Whether the sampling of a layer throws is decided by the rasters on     *)
(* disk: the request names the layers whose sampling throws.               *)

\* the number of monthly layers, out of 12, whose tasks are followed
MaxMonthlySampled == 1

Range(seq) == { seq[i] : i \in 1..Len(seq) }

allLayers == << "GHI", "DNI", "DIF", "PVOUT", "GTI", "OPTA", "TEMP" >>
standardLayers == << "GHI", "DNI", "DIF", "PVOUT", "GTI", "OPTA", "TEMP", "ELE" >>
monthlyLayers == SubSeq(MonthKeys, 1, MaxMonthlySampled)
allLayersToSample == standardLayers \o monthlyLayers

\* the statistics of a polygon that covers one pixel of value `mean`
\* (also the shape of the legacy GHI layer built from ghi_mean)
singleValueStats(mean) ==
    [ mean |-> mean, median |-> mean, min |-> mean, max |-> mean,
      std |-> I(0), count |-> 1, units |-> "kWh/m2/day" ]

\* what the rasters on disk hold under the polygon
SampledMean(layerName) ==
    CASE layerName = "GHI" -> Q(55, 10)
      [] layerName = "DNI" -> I(5)
      [] layerName = "DIF" -> I(2)
      [] layerName = "PVOUT" -> Q(45, 10)
      [] layerName = "GTI" -> I(6)
      [] layerName = "OPTA" -> I(25)
      [] layerName = "TEMP" -> I(27)
      [] layerName = "ELE" -> I(300)
      [] OTHER -> I(4)

\* layers.X?.mean for every layer of a Record<string, ZonalStats>
layerMeans(layers) == [ l \in DOMAIN layers |-> layers[l].mean ]

\* results[layerName] = stats
storeResult(layers, layerName, stats) ==
    (layerName :> stats) @@ layers

\* catch (error) { console.error(...) }: the results are left as they are
afterCatch_DropsResults(layers, layerName) == << >>

afterCatch(layers, layerName) == layers

\* await Promise.all(...): every task has settled
promiseAllSettled_Any(t) == \E l \in DOMAIN t : t[l] = "settled"

promiseAllSettled(t) == \A l \in DOMAIN t : t[l] = "settled"

\* const layerNames = layers && Array.isArray(layers) && layers.length > 0 ? layers : allLayers
\* (a request without `layers` is the request with the empty list)
layerNamesOf(layers) ==
    IF Len(layers) > 0 THEN layers ELSE allLayers

\* sampleMultipleLayers(layerNames, polygonGeoJson): one task per layer
StartSampling(layerNames) ==
    /\ results' = << >>
    /\ tasks' = [ l \in Range(layerNames) |-> "pending" ]
    /\ pc' = "sampling"

\* the task of layer l settles: its statistics are stored, or its error is
\* caught and logged
TaskSettles(l) ==
    /\ pc = "sampling"
    /\ l \in DOMAIN tasks
    /\ tasks[l] = "pending"
    /\ tasks' = [ tasks EXCEPT ![l] = "settled" ]
    /\ IF l \in req.failing
       THEN /\ results' = afterCatch(results, l)
            /\ console' = Append(console,
                   [ level |-> "error", msg |-> "Error sampling layer",
                     data |-> [ layer |-> l, message |-> "GeoTIFF file not found" ] ])
       ELSE /\ results' = storeResult(results, l, singleValueStats(SampledMean(l)))
            /\ console' = console
    /\ UNCHANGED <<pc, req, ret, res>>

\* Promise.all resolves and sampleMultipleLayers returns results
SamplingReturns ==
    /\ pc = "sampling"
    /\ promiseAllSettled(tasks)
    /\ pc' = "sampled"
    /\ UNCHANGED <<req, ret, res, console, results, tasks>>

\* The explored requests of the two handlers
RequestedLayers ==
    { << >>, << "GHI" >>, << "GHI", "PVOUT" >>, << "PVOUT", "TEMP" >>,
      << "TEMP", "GHI", "PVOUT" >> }

FailingSets ==
    { {}, { "GHI" }, { "GHI", "PVOUT" }, { "TEMP", "ELE" } }

LayerRequest(handler, polygonGeoJson, layers, failing, area_m2, ghi_mean, systemConfig) ==
    [ handler |-> handler, polygonGeoJson |-> polygonGeoJson, layers |-> layers,
      failing |-> failing, area_m2 |-> area_m2, ghi_mean |-> ghi_mean,
      systemConfig |-> systemConfig, installed_capacity_kWp |-> Undef,
      latitude |-> Undef, longitude |-> Undef, useTiltCorrection |-> FALSE,
      panelTechnology |-> "mono", gridType |-> "on_grid" ]

SampleGHIRequests ==
    { LayerRequest("sample-ghi", g, ls, f, Undef, Undef, "smallResidential") :
        g \in { "missing", "invalid", "polygon" }, ls \in RequestedLayers,
        f \in SUBSET { "GHI", "PVOUT", "TEMP" } }

ComputePVRequests ==
    { LayerRequest("compute-pv", g, << >>, f, a, m, c) :
        g \in { "missing", "polygon" }, f \in FailingSets,
        a \in { I(0), I(10) }, m \in { Undef, I(0), I(5) },
        c \in { "smallResidential", "custom" } }

LayersInit ==
    /\ pc = "idle"
    /\ req \in SampleGHIRequests \cup ComputePVRequests
    /\ ret = NoResult
    /\ res = NoResponse
    /\ console = << >>
    /\ results = << >>
    /\ tasks = << >>

\* POST /api/gis/sample-ghi without a polygon, or with a malformed one: 400
SampleGHIReject ==
    /\ pc = "idle"
    /\ req.handler = "sample-ghi"
    /\ req.polygonGeoJson # "polygon"
    /\ res' = [ status |-> 400,
                error |-> IF req.polygonGeoJson = "missing"
                          THEN "polygonGeoJson is required"
                          ELSE "Invalid polygon format. Expected GeoJSON Polygon." ]
    /\ pc' = "responded"
    /\ UNCHANGED <<req, ret, console, results, tasks>>

\* POST /api/gis/sample-ghi: the requested layers, or all of them, are sampled
SampleGHIStart ==
    /\ pc = "idle"
    /\ req.handler = "sample-ghi"
    /\ req.polygonGeoJson = "polygon"
    /\ StartSampling(layerNamesOf(req.layers))
    /\ UNCHANGED <<req, ret, res, console>>

\* ... and the handler answers with what was sampled, with a warning when
\* GHI was requested and is missing
SampleGHIRespond ==
    /\ pc = "sampled"
    /\ req.handler = "sample-ghi"
    /\ console' = IF "GHI" \notin DOMAIN results /\ "GHI" \in DOMAIN tasks
                  THEN Append(console,
                           [ level |-> "warn",
                             msg |-> "GHI layer sampling failed or returned no data.",
                             data |-> << >> ])
                  ELSE console
    /\ res' = [ status |-> 200, success |-> TRUE, layers |-> results,
                polygon |-> req.polygonGeoJson ]
    /\ pc' = "responded"
    /\ UNCHANGED <<req, ret, results, tasks>>

\* POST /api/gis/compute-pv with neither layers, polygon nor ghi_mean: 400
ComputePVNoInput ==
    /\ pc = "idle"
    /\ req.handler = "compute-pv"
    /\ ~areaRejected(req.area_m2)
    /\ req.polygonGeoJson = "missing"
    /\ ~Truthy(req.ghi_mean)
    /\ res' = [ status |-> 400,
                error |-> "Either layers, polygonGeoJson, or ghi_mean must be provided" ]
    /\ pc' = "responded"
    /\ UNCHANGED <<req, ret, console, results, tasks>>

\* the handler computes and answers from the layers it holds
RespondWith(out, layers, pvConfig) ==
    /\ ret' = out.result
    /\ console' = console \o out.console
    /\ res' = okResponse(out.result, layers, pvConfig)
    /\ pc' = "responded"

\* POST /api/gis/compute-pv with ghi_mean only (legacy)
ComputePVLegacy ==
    /\ pc = "idle"
    /\ req.handler = "compute-pv"
    /\ ~areaRejected(req.area_m2)
    /\ req.polygonGeoJson = "missing"
    /\ Truthy(req.ghi_mean)
    /\ RespondWith(computePVFromZonalStats(req.area_m2, ("GHI" :> req.ghi_mean),
                                           pvConfigOf(req.systemConfig), OptionsOf(req)),
                   ("GHI" :> singleValueStats(req.ghi_mean)),
                   pvConfigOf(req.systemConfig))
    /\ UNCHANGED <<req, results, tasks>>

\* POST /api/gis/compute-pv with a polygon: all the layers are sampled
ComputePVStart ==
    /\ pc = "idle"
    /\ req.handler = "compute-pv"
    /\ ~areaRejected(req.area_m2)
    /\ req.polygonGeoJson = "polygon"
    /\ StartSampling(allLayersToSample)
    /\ UNCHANGED <<req, ret, res, console>>

\* ... and the energy is computed from what was sampled
ComputePVSampled ==
    /\ pc = "sampled"
    /\ req.handler = "compute-pv"
    /\ RespondWith(computePVFromZonalStats(req.area_m2, layerMeans(results),
                                           pvConfigOf(req.systemConfig), OptionsOf(req)),
                   results, pvConfigOf(req.systemConfig))
    /\ UNCHANGED <<req, results, tasks>>

LayersNext ==
    \/ SampleGHIReject
    \/ SampleGHIStart
    \/ SampleGHIRespond
    \/ (req.handler = "compute-pv" /\ ComputePVReject)
    \/ ComputePVNoInput
    \/ ComputePVLegacy
    \/ ComputePVStart
    \/ ComputePVSampled
    \/ \E l \in DOMAIN tasks : TaskSettles(l)
    \/ SamplingReturns

LayersSpec == LayersInit /\ [][LayersNext]_vars

----------------------------------------------------------------------------
(* Properties of the sampling of several layers *)

\* sampleMultipleLayers has returned to the handler
SamplingDone == tasks # << >> /\ pc \in { "sampled", "responded" }

RequestedLayerNames == DOMAIN tasks
FailingRequested == RequestedLayerNames \cap req.failing

\* the statistics of the layers whose sampling does not throw
ExpectedResults ==
    [ l \in RequestedLayerNames \ req.failing |-> singleValueStats(SampledMean(l)) ]

ErrorLogged(l) ==
    \E i \in 1..Len(console) :
        /\ console[i].level = "error"
        /\ console[i].msg = "Error sampling layer"
        /\ console[i].data.layer = l

\* C15: the failure of a layer removes no result of another layer while
\* the tasks run, and the call returns exactly the layers that did not
\* fail, with an error logged for each layer that failed.
C15_FailureOmitsOnlyThatLayer ==
    /\ \A l \in DOMAIN tasks :
          (tasks[l] = "settled" /\ l \notin req.failing) => l \in DOMAIN results
    /\ SamplingDone
          => /\ DOMAIN results = RequestedLayerNames \ req.failing
             /\ \A l \in FailingRequested : ErrorLogged(l)
             /\ Len(console) >= Cardinality(FailingRequested)

C15_Witness ==
    /\ SamplingDone
    /\ pc = "responded"
    /\ res.status = 200
    /\ FailingRequested # {}
    /\ DOMAIN results # {}
    /\ console[Len(console)].level = "error"

\* C16: when the sampling of GHI fails, the handler that asked for it does
\* not answer with a success.
C16_GhiFailureIsFatal ==
    (SamplingDone /\ pc = "responded" /\ "GHI" \in FailingRequested)
        => res.status # 200

\* C19: the call returns only when every task has settled, with the same
\* map whatever the order in which they settled, and the handler answers
\* from that map.
C19_AllTasksAwaited ==
    /\ SamplingDone
          => /\ \A l \in DOMAIN tasks : tasks[l] = "settled"
             /\ results = ExpectedResults
    /\ (SamplingDone /\ pc = "responded")
          => /\ res.layers = ExpectedResults
             /\ req.handler = "compute-pv"
                   => res.pv = computePVFromZonalStats(
                                   req.area_m2, layerMeans(ExpectedResults),
                                   pvConfigOf(req.systemConfig), OptionsOf(req)).result

C19_Witness ==
    /\ SamplingDone
    /\ pc = "responded"
    /\ req.handler = "compute-pv"
    /\ Cardinality(DOMAIN results) = Len(allLayersToSample)
    /\ res.pv.ghi_mean = SampledMean("GHI")

----------------------------------------------------------------------------
(* tiltCorrectionService.ts: from horizontal to plane-of-array irradiance *)

\* Estimate diffuse fraction using Erbs model
erbsDiffuseFraction(ghi, clearSkyGHI) ==
    LET kt == Div(ghi, clearSkyGHI)
    IN  IF Le(kt, I(0)) THEN I(1)
        ELSE IF Ge(kt, Q(8, 10)) THEN Q(165, 1000)
        ELSE IF Le(kt, Q(22, 100)) THEN Sub(I(1), Mul(Q(9, 100), kt))
        ELSE IF Le(kt, Q(8, 10))
        THEN Add(Add(Add(Sub(Q(9511, 10000), Mul(Q(1604, 10000), kt)),
                         Mul(Q(4388, 1000), Mul(kt, kt))),
                     Neg(Mul(Q(16638, 1000), Mul(kt, Mul(kt, kt))))),
                 Mul(Q(12336, 1000), Mul(Mul(kt, kt), Mul(kt, kt))))
        ELSE Q(165, 1000)

\* Decompose GHI into DNI and DIF if not provided
decompose(params, sun) ==
    IF params.dni # Undef /\ params.dif # Undef
    THEN [ dni |-> params.dni, dif |-> params.dif ]
    ELSE LET dif == Mul(params.ghi, erbsDiffuseFraction(params.ghi, sun.clearSkyGHI))
         IN  [ dni |-> IF sun.zenithAbove85 THEN I(0)
                       ELSE MathMax(I(0), Div(Sub(params.ghi, dif), sun.cosZenith)),
               dif |-> dif ]

\* Hay-Davies transposition model for POA calculation.  The angles come
\* from suncalc and the trigonometric functions: `sun` holds the cosines
\* of the zenith, incidence and tilt angles and the clear-sky estimate
\* they give for the site, the plane and the date.
calculateTiltCorrection(params, sun) ==
    LET d == decompose(params, sun)
        ai == Div(d.dni, Mul(I(1367), sun.cosZenith))
        aiClamped == MathMax(I(0), MathMin(I(1), ai))
        beamComponent == Mul(d.dni, MathMax(I(0), sun.cosIncidence))
        rb == Div(MathMax(I(0), sun.cosIncidence), MathMax(Q(87, 1000), sun.cosZenith))
        diffuseComponent ==
            Mul(d.dif, Add(Mul(aiClamped, rb),
                           Mul(Sub(I(1), aiClamped), Div(Add(I(1), sun.cosTilt), I(2)))))
        albedo == Q(2, 10)
        groundReflectedComponent ==
            Mul(Mul(params.ghi, albedo), Div(Sub(I(1), sun.cosTilt), I(2)))
        poa == Add(Add(beamComponent, diffuseComponent), groundReflectedComponent)
    IN  [ poa |-> MathMax(I(0), poa),
          beamComponent |-> MathMax(I(0), beamComponent),
          diffuseComponent |-> MathMax(I(0), diffuseComponent),
          groundReflectedComponent |-> MathMax(I(0), groundReflectedComponent) ]

\* the argument convertGHIToPOA gives to calculateTiltCorrection
tiltParams(ghi_kwh_m2_day, dni, dif) ==
    [ ghi |-> Div(Mul(ghi_kwh_m2_day, I(1000)), I(5)),
      dni |-> IF Truthy(dni) THEN Mul(dni, I(1000)) ELSE Undef,
      dif |-> IF Truthy(dif) THEN Mul(dif, I(1000)) ELSE Undef ]

\* Convert back to daily kWh/m2
poaDaily(result) == MathMax(I(0), Mul(Div(result.poa, I(1000)), I(5)))

\* Convert daily GHI to POA using tilt correction: the argument of the
\* transposition, its result and the value returned
convertGHIToPOA(ghi_kwh_m2_day, sun, dni, dif) ==
    LET params == tiltParams(ghi_kwh_m2_day, dni, dif)
        result == calculateTiltCorrection(params, sun)
    IN  [ params |-> params, result |-> result, poa |-> poaDaily(result) ]

\* daily irradiances (kWh/m2/day); DNI and DIF may be absent
DailyGhi == { I(0), I(1), I(4), Q(55, 10) }
DailyDni == { Undef, I(0), I(3), I(5) }
DailyDif == { Undef, I(0), I(2) }

\* sun and plane: horizontal plane under a high sun, plane tilted by 60
\* degrees facing the sun and facing away from it, vertical plane under a
\* sun on the horizon
Suns ==
    { [ cosZenith |-> Q(4, 5), cosIncidence |-> Q(4, 5), cosTilt |-> I(1),
        zenithAbove85 |-> FALSE, clearSkyGHI |-> I(1000) ],
      [ cosZenith |-> Q(4, 5), cosIncidence |-> I(1), cosTilt |-> Q(1, 2),
        zenithAbove85 |-> FALSE, clearSkyGHI |-> I(1000) ],
      [ cosZenith |-> Q(1, 2), cosIncidence |-> Q(-1, 2), cosTilt |-> Q(1, 2),
        zenithAbove85 |-> FALSE, clearSkyGHI |-> I(1000) ],
      [ cosZenith |-> Q(1, 20), cosIncidence |-> Q(9, 10), cosTilt |-> I(0),
        zenithAbove85 |-> TRUE, clearSkyGHI |-> I(500) ] }

TiltCalls == [ ghi : DailyGhi, dni : DailyDni, dif : DailyDif, sun : Suns ]

TiltInit ==
    /\ pc = "idle"
    /\ req \in TiltCalls
    /\ ret = NoResult
    /\ res = NoResponse
    /\ console = << >>
    /\ results = << >>
    /\ tasks = << >>

\* one call of convertGHIToPOA
ConvertGHIToPOA ==
    /\ pc = "idle"
    /\ ret' = convertGHIToPOA(req.ghi, req.sun, req.dni, req.dif)
    /\ pc' = "converted"
    /\ UNCHANGED <<req, res, console, results, tasks>>

TiltNext == ConvertGHIToPOA

TiltSpec == TiltInit /\ [][TiltNext]_vars

----------------------------------------------------------------------------
(* Properties of the conversion to plane-of-array irradiance *)

Converted == pc = "converted"

\* from kWh/m2/day to the representative W/m2: x 1000 / 5 peak sun hours
ToRepresentative(x) == Div(Mul(x, I(1000)), I(5))

\* C23: GHI and every DNI and DIF passed on reach the transposition
\* converted by the same factor of 1000 / 5, and the value returned is the
\* result of the transposition converted back by 5 / 1000.
C23_SameConversionForAllInputs ==
    Converted
        => /\ NumEq(ret.params.ghi, ToRepresentative(req.ghi))
           /\ NumEq(ret.poa, Div(Mul(ret.result.poa, I(5)), I(1000)))
           /\ ret.params.dni # Undef => NumEq(ret.params.dni, ToRepresentative(req.dni))
           /\ ret.params.dif # Undef => NumEq(ret.params.dif, ToRepresentative(req.dif))

----------------------------------------------------------------------------
(* Further properties of the PV model *)

\* the monthly energies come from the latitude model
LatitudePath == ~AllMonthsPresent

\* the width of the seasonal variation of 12 monthly values: the largest
\* minus the smallest, as a share of their total
Spread(monthly, total) ==
    LET shares == { Div(monthly[i], total) : i \in 1..12 }
    IN  Sub(MaxNum(shares), MinNum(shares))

\* the variation the function applies at another latitude, all else equal
SpreadAt(latitude) ==
    Spread(monthlyDistribution(<< >>, ret.ghi_mean, latitude, ret.yearly_kWh_usable),
           ret.yearly_kWh_usable)

\* C24: on the latitude path the seasonal variation of the monthly shares
\* is at least that of every latitude closer to the equator (latitude 0
\* included), and the 12 shares sum to 1.
C24_VariationGrowsWithLatitude ==
    (Returned /\ LatitudePath /\ req.latitude # Undef
              /\ Gt(ret.ghi_mean, I(0)) /\ Gt(ret.yearly_kWh_usable, I(0)))
        => /\ NumEq(Div(SumSeq(ret.monthly_kWh_usable), ret.yearly_kWh_usable), I(1))
           /\ \A l \in SeasonLatitudes :
                 Le(MathAbs(l), MathAbs(req.latitude))
                     => Le(SpreadAt(l), Spread(ret.monthly_kWh_usable, ret.yearly_kWh_usable))

\* C27: the AC capacity of every result is its DC capacity divided by the
\* DC:AC ratio, with or without an installed-capacity override.
C27_AcFollowsDc ==
    Returned => NumEq(ret.P_ac_kW, Div(ret.P_dc_kWp, ReqDcAcRatio))

\* the monthly layers of the request, and the request without them
MonthsPresent == { i \in 1..12 : MonthKeys[i] \in DOMAIN req.layers }
OtherLayers ==
    [ key \in DOMAIN req.layers \ { MonthKeys[i] : i \in 1..12 } |-> req.layers[key] ]
ReqMonthly == [ i \in 1..12 |-> req.layers[MonthKeys[i]] ]

\* C28: with all 12 monthly layers the annual yield is their sum (times
\* 30.4375 below 100), whatever the annual PVOUT, and the monthly energies
\* follow their shares; with fewer than 12 the result is the one of the
\* request without any monthly layer, and pvout_monthly_kwh_kwp is
\* undefined.
C28_MonthlyUsedIffAllTwelve ==
    Returned
        => /\ AllMonthsPresent
                 => /\ ret.pvout_monthly_kwh_kwp = ReqMonthly
                    /\ AnnualYieldUsed =
                           (IF Lt(ReqMonthlySum, I(100))
                            THEN Mul(ReqMonthlySum, Q(304375, 10000))
                            ELSE ReqMonthlySum)
                    /\ \A i \in 1..12 :
                          ret.monthly_kWh_usable[i] =
                              Mul(Div(ReqMonthly[i], ReqMonthlySum), ret.yearly_kWh_usable)
           /\ ~AllMonthsPresent
                 => /\ ret.pvout_monthly_kwh_kwp = Undef
                    /\ ret = computePVFromZonalStats(req.area_m2, OtherLayers, ReqConfig,
                                                      OptionsOf(req)).result

\* eleven monthly layers and an annual PVOUT: the annual value is used
C28_Witness ==
    /\ Returned
    /\ Cardinality(MonthsPresent) = 11
    /\ "PVOUT" \in DOMAIN req.layers
    /\ Gt(req.layers["PVOUT"], I(10))
    /\ AnnualYieldUsed = req.layers["PVOUT"]

\* C29: with a TEMP layer the ambient temperature of the calculation, echoed
\* as temp_mean, is the mean of that layer, whatever its value; without
\* one it is 25.
C29_TempLayerUsed ==
    Returned
        => LET ambient == IF "TEMP" \in DOMAIN req.layers THEN req.layers["TEMP"] ELSE I(25)
           IN  /\ ret.temp_mean = ambient
               /\ ret.f_tech_temp = techTempFactor(req.panelTechnology, ambient)

----------------------------------------------------------------------------
(* client/src/utils/cesiumArea.ts: from picked positions to a closed ring *)

\* Cesium.Cartographic.fromCartesian and Cesium.Math.toDegrees: the
\* longitude and latitude of a position, whatever its height
toLonLat(pos) == << pos.lon, pos.lat >>

\* Ensure ring is closed: push first if not equal to last
closeRing(ring) ==
    IF ring[1][1] # ring[Len(ring)][1] \/ ring[1][2] # ring[Len(ring)][2]
    THEN ring \o << ring[1] >>
    ELSE ring

\* positions is null or a list of positions (its items)
cesiumPositionsToLonLatRing(positions) ==
    IF positions.null \/ Len(positions.items) < 3 THEN << >>
    ELSE closeRing([ i \in 1..Len(positions.items) |-> toLonLat(positions.items[i]) ])

\* picked positions: three places, one of them also at another height
MaxPositions == 4
Position(lon, lat, height) == [ lon |-> I(lon), lat |-> I(lat), height |-> height ]
PickedPositions ==
    { Position(70, 30, 0), Position(70, 30, 5), Position(71, 30, 0), Position(71, 29, 0) }

PositionLists ==
    { [ null |-> FALSE, items |-> l ] :
        l \in UNION { [ 1..n -> PickedPositions ] : n \in 0..MaxPositions } }
    \cup { [ null |-> TRUE, items |-> << >> ] }

RingInit ==
    /\ pc = "idle"
    /\ req \in [ positions : PositionLists ]
    /\ ret = NoResult
    /\ res = NoResponse
    /\ console = << >>
    /\ results = << >>
    /\ tasks = << >>

\* one call of cesiumPositionsToLonLatRing
CesiumPositionsToLonLatRing ==
    /\ pc = "idle"
    /\ ret' = [ ring |-> cesiumPositionsToLonLatRing(req.positions) ]
    /\ pc' = "normalized"
    /\ UNCHANGED <<req, res, console, results, tasks>>

RingNext == CesiumPositionsToLonLatRing

RingSpec == RingInit /\ [][RingNext]_vars

----------------------------------------------------------------------------
(* Properties of the ring normalization *)

Normalized == pc = "normalized"

\* the points supplied, as longitude and latitude
SuppliedPoints ==
    [ i \in 1..Len(req.positions.items) |-> toLonLat(req.positions.items[i]) ]

DistinctPoints == { SuppliedPoints[i] : i \in 1..Len(SuppliedPoints) }

IsClosed(ring) == ring # << >> /\ ring[1] = ring[Len(ring)]

\* C25 as stated: an open ring gets its first point appended, a closed
\* ring is left unchanged, every ring returned has first = last, and the
\* empty ring is returned whenever fewer than 3 distinct points are
\* supplied.
C25_NormalizedOrEmpty ==
    Normalized
        => /\ Cardinality(DistinctPoints) < 3 => ret.ring = << >>
           /\ Cardinality(DistinctPoints) >= 3
                 => /\ IsClosed(ret.ring)
                    /\ IsClosed(SuppliedPoints) => ret.ring = SuppliedPoints
                    /\ ~IsClosed(SuppliedPoints)
                          => ret.ring = SuppliedPoints \o << SuppliedPoints[1] >>

----------------------------------------------------------------------------
(* financialService.ts: computeFinancialSummary *)

\* Math.pow(x, n) for a whole number n >= 0
RECURSIVE MathPow(_, _)
MathPow(x, n) == IF n = 0 THEN I(1) ELSE Mul(x, MathPow(x, n - 1))

\* Helper: Smart CAPEX Defaults ("" stands for an absent grid type)
getDefaultCapexPerkWp(gridType, systemSize_kWp) ==
    IF gridType = "hybrid" THEN I(130000)
    ELSE IF gridType = "off_grid" THEN I(80000)
    ELSE IF Le(systemSize_kWp, I(10)) THEN I(65000)
    ELSE IF Le(systemSize_kWp, I(100)) THEN I(52000)
    ELSE I(45000)

getTechCostFactor(panelTech) ==
    IF panelTech = "poly" THEN Q(96, 100)
    ELSE IF panelTech = "thinfilm" THEN Q(95, 100)
    ELSE I(1)

\* 1. Set Defaults and 2. Determine CAPEX
finDefaults(inputs) ==
    LET capexEffective ==
            Mul(Nullish(inputs.capex_Rs_per_kWp,
                        getDefaultCapexPerkWp(inputs.gridType, inputs.systemSize_kWp)),
                getTechCostFactor(inputs.panelTechnology))
    IN  [ tariff0 |-> Nullish(inputs.tariff_Rs_per_kWh, Q(85, 10)),
          om0 |-> Nullish(inputs.om_Rs_per_kWp_per_year, I(800)),
          lifetime |-> Nullish(inputs.projectLifetime_years, I(25))[1],
          degradation |-> Div(Nullish(inputs.energyDegradation_pct_per_year, Q(7, 10)), I(100)),
          tariffInflation |-> Div(Nullish(inputs.tariffInflation_pct_per_year, I(3)), I(100)),
          omInflation |-> Div(Nullish(inputs.omInflation_pct_per_year, I(3)), I(100)),
          gridEmission |-> Nullish(inputs.gridEmission_kgCO2_per_kWh, Q(82, 100)),
          capexEffective |-> capexEffective,
          totalCapex_Rs |-> Mul(inputs.systemSize_kWp, capexEffective) ]

\* 3. Sanity Check
finSanityCheck(inputs) ==
    LET specificYield == Div(inputs.annualOutput_kWh, inputs.systemSize_kWp)
    IN  IF Lt(specificYield, I(700)) \/ Gt(specificYield, I(2200))
        THEN << [ level |-> "warn", msg |-> "Suspicious specific yield",
                  data |-> [ specificYield |-> specificYield ] ] >>
        ELSE << >>

\* Year 0 (Investment)
yearZero(tariff0, cumulativeCashflow_Rs) ==
    [ year |-> 0, output_kWh |-> I(0), tariff_Rs_per_kWh |-> tariff0,
      grossSavings_Rs |-> I(0), omCost_Rs |-> I(0), netSavings_Rs |-> I(0),
      cumulativeCashflow_Rs |-> cumulativeCashflow_Rs ]

\* the figures of year y, after a cumulative cashflow of prevCumulative
yearResult(inputs, d, y, prevCumulative) ==
    LET output_kWh == Mul(inputs.annualOutput_kWh, MathPow(Sub(I(1), d.degradation), y - 1))
        tariff_y == Mul(d.tariff0, MathPow(Add(I(1), d.tariffInflation), y - 1))
        omRate_y == Mul(d.om0, MathPow(Add(I(1), d.omInflation), y - 1))
        grossSavings_Rs == Mul(output_kWh, tariff_y)
        omCost_Rs == Mul(inputs.systemSize_kWp, omRate_y)
        netSavings_Rs == Sub(grossSavings_Rs, omCost_Rs)
    IN  [ year |-> y, output_kWh |-> output_kWh, tariff_Rs_per_kWh |-> tariff_y,
          grossSavings_Rs |-> grossSavings_Rs, omCost_Rs |-> omCost_Rs,
          netSavings_Rs |-> netSavings_Rs,
          cumulativeCashflow_Rs |-> Add(prevCumulative, netSavings_Rs) ]

\* Payback Interpolation
paybackAfter(paybackYears, y, prevCumulative, yr) ==
    IF paybackYears = Undef /\ Lt(prevCumulative, I(0)) /\ Ge(yr.cumulativeCashflow_Rs, I(0))
    THEN Add(I(y - 1), Div(MathAbs(prevCumulative), yr.netSavings_Rs))
    ELSE paybackYears

\* 5. Summary Metrics and the value returned
finSummary(inputs, v) ==
    [ totalCapex_Rs |-> v.d.totalCapex_Rs,
      firstYearNetSavings_Rs |->
          IF Len(v.years) >= 2 THEN OrElse(v.years[2].netSavings_Rs, I(0)) ELSE I(0),
      paybackYears |-> v.paybackYears,
      co2Avoided_tons_per_year |->
          Div(Mul(inputs.annualOutput_kWh, v.d.gridEmission), I(1000)),
      years |-> v.years,
      inputs |-> [ inputs EXCEPT !.capex_Rs_per_kWp = v.d.capexEffective ] ]

\* the inputs of the summary: the rates and the lifetime are always given
\* (the defaults of 0.7 % and 3 % over 25 years are outside the range of
\* the model's numbers); tariff, O&M rate and CAPEX may be left out
MaxLifetime == 3
FinancialInputs ==
    [ systemSize_kWp : { I(0), I(5), I(200) },
      annualOutput_kWh : { I(0), I(7500) },
      gridType : { "", "hybrid" },
      panelTechnology : { "", "poly" },
      tariff_Rs_per_kWh : { Undef, I(10) },
      capex_Rs_per_kWp : { Undef, I(0), I(20000) },
      om_Rs_per_kWp_per_year : { Undef, I(9000) },
      projectLifetime_years : { I(n) : n \in 0..MaxLifetime },
      energyDegradation_pct_per_year : { I(0), I(50) },
      tariffInflation_pct_per_year : { I(0), I(100) },
      omInflation_pct_per_year : { I(0), I(100) },
      gridEmission_kgCO2_per_kWh : { Undef } ]

FinInit ==
    /\ pc = "idle"
    /\ req \in FinancialInputs
    /\ ret = NoResult
    /\ res = NoResponse
    /\ console = << >>
    /\ results = << >>
    /\ tasks = << >>

\* steps 1 to 3 and year 0: up to the head of the loop
FinBegin ==
    /\ pc = "idle"
    /\ LET d == finDefaults(req)
       IN  ret' = [ d |-> d, y |-> 1,
                    cumulativeCashflow_Rs |-> Neg(d.totalCapex_Rs),
                    years |-> << yearZero(d.tariff0, Neg(d.totalCapex_Rs)) >>,
                    paybackYears |-> Undef ]
    /\ console' = console \o finSanityCheck(req)
    /\ pc' = "loop"
    /\ UNCHANGED <<req, res, results, tasks>>

\* one iteration of for (let y = 1; y <= lifetime; y++)
FinYear ==
    /\ pc = "loop"
    /\ ret.y <= ret.d.lifetime
    /\ LET yr == yearResult(req, ret.d, ret.y, ret.cumulativeCashflow_Rs)
       IN  ret' = [ ret EXCEPT
                      !.cumulativeCashflow_Rs = yr.cumulativeCashflow_Rs,
                      !.years = Append(@, yr),
                      !.paybackYears =
                          paybackAfter(@, ret.y, ret.cumulativeCashflow_Rs, yr),
                      !.y = @ + 1 ]
    /\ UNCHANGED <<pc, req, res, console, results, tasks>>

\* the end of the loop and the return
FinReturn ==
    /\ pc = "loop"
    /\ ret.y > ret.d.lifetime
    /\ res' = finSummary(req, ret)
    /\ pc' = "returned"
    /\ UNCHANGED <<req, ret, console, results, tasks>>

FinNext == FinBegin \/ FinYear \/ FinReturn

FinSpec == FinInit /\ [][FinNext]_vars

----------------------------------------------------------------------------
(* Properties of the financial summary *)

Lifetime == req.projectLifetime_years[1]

\* the years written so far form the chain of cumulative cashflows
CashflowChain(years, totalCapex_Rs) ==
    /\ years[1].year = 0
    /\ years[1].cumulativeCashflow_Rs = Neg(totalCapex_Rs)
    /\ \A n \in 1..(Len(years) - 1) :
          /\ years[n + 1].year = n
          /\ years[n + 1].cumulativeCashflow_Rs =
                 Add(years[n].cumulativeCashflow_Rs, years[n + 1].netSavings_Rs)

\* the years 1..lifetime that end with a cumulative cashflow >= 0
PaidBackYears(years) ==
    { y \in 1..(Len(years) - 1) : Ge(years[y + 1].cumulativeCashflow_Rs, I(0)) }

FirstOf(S) == CHOOSE y \in S : \A z \in S : y <= z

PaybackInFirstPaidBackYear(summary) ==
    /\ (summary.paybackYears # Undef) <=> (PaidBackYears(summary.years) # {})
    /\ PaidBackYears(summary.years) # {}
          => /\ Le(I(FirstOf(PaidBackYears(summary.years)) - 1), summary.paybackYears)
             /\ Le(summary.paybackYears, I(FirstOf(PaidBackYears(summary.years))))

\* C30: the summary lists lifetime + 1 years chained from -totalCapex by
\* the net savings of each year; paybackYears is assigned at most once,
\* and it is non-null exactly when some year 1..lifetime ends with a
\* cumulative cashflow >= 0, lying in [y - 1, y] for the first such year y.
C30_CashflowAndPayback ==
    /\ [](pc = "loop" => CashflowChain(ret.years, ret.d.totalCapex_Rs))
    /\ [](pc = "returned"
            => /\ Len(res.years) = Lifetime + 1
               /\ CashflowChain(res.years, res.totalCapex_Rs)
               /\ PaybackInFirstPaidBackYear(res))
    /\ [][(pc = "loop" /\ ret.paybackYears # Undef)
              => ret'.paybackYears = ret.paybackYears]_vars

====
